---------------------------- MODULE Spec2Model ----------------------------
(***************************************************************************)
(* A model of the QR encoder of package qrgo (src/qrgo.go, lines 1-974).   *)
(*                                                                         *)
(* Strings are sequences of bytes (0..255); bit strings are sequences of   *)
(* the one-character strings "0" and "1" (and "-", which strconv.FormatInt *)
(* emits for a negative number).  Go slices and rows/columns of the canvas *)
(* are 0-based in the source; sequences here are 1-based, the canvas is a  *)
(* function on 0..N-1.                                                     *)
(***************************************************************************)
EXTENDS Integers, Sequences, FiniteSets, TLC

VARIABLES qr, loc, pc, ret, arg, out

vars == <<qr, loc, pc, ret, arg, out>>

-----------------------------------------------------------------------------
(* Program constants.                                                      *)

numeric == 1
alpha == 2
byteMode == 4

indNumeric == <<"0", "0", "0", "1">>
indAlpha == <<"0", "0", "1", "0">>
indBytes == <<"0", "1", "0", "0">>

versions == 40

maxCharsNumeric ==
  << 41, 77, 127, 187, 255, 322, 370, 461, 552, 652, 772, 883, 1022,
     1101, 1250, 1408, 1548, 1725, 1903, 2061, 2232, 2409, 2620, 2812,
     3057, 3283, 3517, 3669, 3909, 4158, 4417, 4686, 4965, 5253, 5529,
     5836, 6153, 6479, 6743, 7089 >>

maxCharsAlpha ==
  << 25, 47, 77, 114, 154, 195, 224, 279, 335, 395, 468, 535, 619,
     667, 758, 854, 938, 1046, 1153, 1249, 1352, 1460, 1588, 1704,
     1853, 1990, 2132, 2223, 2369, 2520, 2677, 2840, 3009, 3183,
     3351, 3537, 3729, 3927, 4087, 4296 >>

maxCharsBytes ==
  << 17, 32, 53, 78, 106, 134, 154, 192, 230, 271, 321, 367, 425, 458,
     520, 586, 644, 718, 792, 858, 929, 779, 1091, 1171, 1273, 1367,
     1465, 1528, 1628, 1732, 1840, 1952, 2068, 2188, 2303, 2431, 2563,
     2699, 2809, 2953 >>

(* Byte values of the characters the source names.                         *)
chNewline == 10
chPlus == 43
chMinus == 45
chZero == 48
chNine == 57
chUpperA == 65
chUpperZ == 90
chLowerA == 97
runeError == 65533

digitChars == chZero .. chNine

(* alphaTable: the 45 keys and their values; '$'=36, '%'=37, '*'=42,       *)
(* '+'=43, '-'=45, '.'=46, '/'=47, ':'=58.                                 *)
alphaTable ==
  [r \in digitChars \cup (chUpperA .. chUpperZ) \cup {32, 36, 37, 42, 43, 45, 46, 47, 58} |->
     IF r \in digitChars THEN r - chZero
     ELSE IF r \in chUpperA .. chUpperZ THEN r - chUpperA + 10
     ELSE CASE r = 32 -> 36 [] r = 36 -> 37 [] r = 37 -> 38 [] r = 42 -> 39
            [] r = 43 -> 40 [] r = 45 -> 41 [] r = 46 -> 42 [] r = 47 -> 43
            [] r = 58 -> 44]

(* A Go map read: the zero value on a miss.                                *)
alphaTableAt(r) == IF r \in DOMAIN alphaTable THEN alphaTable[r] ELSE 0

blockInfo ==
  [v \in 1 .. 14 |->
     CASE v = 1 -> <<19, 7, 1, 19, 0, 0, 0>>    [] v = 2 -> <<34, 10, 1, 34, 0, 0, 7>>
       [] v = 3 -> <<55, 15, 1, 55, 0, 0, 7>>   [] v = 4 -> <<80, 20, 1, 80, 0, 0, 7>>
       [] v = 5 -> <<108, 26, 1, 108, 0, 0, 7>> [] v = 6 -> <<136, 18, 2, 68, 0, 0, 7>>
       [] v = 7 -> <<156, 20, 2, 78, 0, 0, 0>>  [] v = 8 -> <<194, 24, 2, 97, 0, 0, 0>>
       [] v = 9 -> <<232, 30, 2, 116, 0, 0, 0>> [] v = 10 -> <<274, 18, 2, 68, 2, 69, 0>>
       [] v = 11 -> <<324, 20, 4, 81, 0, 0, 0>> [] v = 12 -> <<370, 24, 2, 92, 2, 93, 0>>
       [] v = 13 -> <<428, 26, 4, 107, 0, 0, 0>> [] v = 14 -> <<461, 30, 3, 115, 1, 116, 0>>]

(* blockInfo[version][k] of the source (k is 0-based there): a map read,   *)
(* the zero array on a miss.                                               *)
blockInfoAt(v, k) == IF v \in DOMAIN blockInfo THEN blockInfo[v][k + 1] ELSE 0

alignmentPatterns ==
  [v \in 2 .. 12 |->
     CASE v = 2 -> <<18, 18>> [] v = 3 -> <<22, 22>> [] v = 4 -> <<26, 26>>
       [] v = 5 -> <<30, 30>> [] v = 6 -> <<34, 34>>
       [] v = 7 -> <<6, 22, 22, 6, 22, 22, 22, 38, 38, 22, 38, 38>>
       [] v = 8 -> <<6, 24, 24, 6, 24, 24, 24, 42, 42, 24, 42, 42>>
       [] v = 9 -> <<6, 26, 26, 6, 26, 26, 26, 46, 46, 26, 46, 46>>
       [] v = 10 -> <<6, 28, 28, 6, 28, 28, 28, 50, 50, 28, 50, 50>>
       [] v = 11 -> <<6, 30, 30, 6, 30, 30, 30, 54, 54, 30, 54, 54>>
       [] v = 12 -> <<6, 32, 32, 6, 32, 32, 32, 58, 58, 32, 58, 58>>]

alignmentPatternsAt(v) == IF v \in DOMAIN alignmentPatterns THEN alignmentPatterns[v] ELSE <<>>

(* A string constant of the source, as a sequence of its characters.       *)
Bits(s) == [i \in 1 .. Len(s) |-> IF s[i] = 1 THEN "1" ELSE "0"]

terminatorPads == << Bits(<<1,1,1,0,1,1,0,0>>), Bits(<<0,0,0,1,0,0,0,1>>) >>

formatInformationStrings ==
  << Bits(<<1,1,1,0,1,1,1,1,1,0,0,0,1,0,0>>), Bits(<<1,1,1,0,0,1,0,1,1,1,1,0,0,1,1>>),
     Bits(<<1,1,1,1,1,0,1,1,0,1,0,1,0,1,0>>), Bits(<<1,1,1,1,0,0,0,1,0,0,1,1,1,0,1>>),
     Bits(<<1,1,0,0,1,1,0,0,0,1,0,1,1,1,1>>), Bits(<<1,1,0,0,0,1,1,0,0,0,1,1,0,0,0>>),
     Bits(<<1,1,0,1,1,0,0,0,1,0,0,0,0,0,1>>), Bits(<<1,1,0,1,0,0,1,0,1,1,1,0,1,1,0>>) >>

versionInformationStrings ==
  << Bits(<<0,0,0,1,1,1,1,1,0,0,1,0,0,1,0,1,0,0>>), Bits(<<0,0,1,0,0,0,0,1,0,1,1,0,1,1,1,1,0,0>>),
     Bits(<<0,0,1,0,0,1,1,0,1,0,1,0,0,1,1,0,0,1>>), Bits(<<0,0,1,0,1,0,0,1,0,0,1,1,0,1,0,0,1,1>>),
     Bits(<<0,0,1,0,1,1,1,0,1,1,1,1,1,1,0,1,1,0>>), Bits(<<0,0,1,1,0,0,0,1,1,1,0,1,1,0,0,0,1,0>>) >>

-----------------------------------------------------------------------------
(* Helpers for Go's strings and strconv.                                   *)

Max2(a, b) == IF a >= b THEN a ELSE b

(* s[lo:hi] of Go (0-based, hi exclusive), for 0 <= lo <= hi <= len(s).   *)
Slice(s, lo, hi) == [i \in 1 .. (hi - lo) |-> s[lo + i]]

(* n copies of the character ch.                                           *)
Repeat(ch, n) == [i \in 1 .. n |-> ch]

RECURSIVE ConcatRange(_, _, _)
(* ss[lo] \o ... \o ss[hi]: what a loop of `encoding += piece` builds.     *)
ConcatRange(ss, lo, hi) ==
  IF lo > hi THEN <<>>
  ELSE IF lo = hi THEN ss[lo]
  ELSE LET mid == (lo + hi) \div 2
       IN ConcatRange(ss, lo, mid) \o ConcatRange(ss, mid + 1, hi)

Concat(ss) == ConcatRange(ss, 1, Len(ss))

RECURSIVE ForRange(_, _, _, _)
(* The value of acc after `for i := lo; i <= hi; i++ { acc = Step(acc, i) }`. *)
(* The range is split in two so that the evaluation nests log-deep, and    *)
(* the result of the first half is compared with itself so that it is a    *)
(* computed value before the second half starts from it.                   *)
ForRange(Step(_, _), lo, hi, acc) ==
  IF lo > hi THEN acc
  ELSE IF lo = hi THEN Step(acc, lo)
  ELSE LET mid == (lo + hi) \div 2
           left == ForRange(Step, lo, mid, acc)
       IN IF left = left THEN ForRange(Step, mid + 1, hi, left) ELSE acc

RECURSIVE BinaryDigits(_)
(* The binary digits of n >= 0, most significant first; "0" for 0.         *)
BinaryDigits(n) ==
  IF n < 2 THEN << IF n = 1 THEN "1" ELSE "0" >>
  ELSE Append(BinaryDigits(n \div 2), IF n % 2 = 1 THEN "1" ELSE "0")

(* strconv.FormatInt(n, 2): a minus sign in front of a negative number.    *)
FormatInt2(n) == IF n < 0 THEN <<"-">> \o BinaryDigits(0 - n) ELSE BinaryDigits(n)

RECURSIVE DigitsValue(_, _, _)
(* The value of the digits d[1..k] (numbers 0..base-1) in the base.        *)
DigitsValue(d, k, base) ==
  IF k = 0 THEN 0 ELSE DigitsValue(d, k - 1, base) * base + d[k]

(* strconv.ParseInt(s, 10, 64) for a string of bytes, the error dropped:   *)
(* an optional sign, then one or more decimal digits; 0 on a syntax error. *)
(* The strings parsed here have at most three bytes, so never a range      *)
(* error.                                                                  *)
ParseInt10(s) ==
  LET signed == Len(s) > 0 /\ s[1] \in {chPlus, chMinus}
      body == IF signed THEN Tail(s) ELSE s
      ok == Len(body) > 0 /\ \A i \in 1 .. Len(body) : body[i] \in digitChars
      v == DigitsValue([i \in 1 .. Len(body) |-> body[i] - chZero], Len(body), 10)
  IN IF ~ok THEN 0
     ELSE IF signed /\ s[1] = chMinus THEN 0 - v ELSE v

(* strconv.ParseInt(s, 2, 64) for a bit string of eight characters, the    *)
(* error dropped.                                                          *)
ParseInt2(s) ==
  LET signed == Len(s) > 0 /\ s[1] \in {"+", "-"}
      body == IF signed THEN Tail(s) ELSE s
      ok == Len(body) > 0 /\ \A i \in 1 .. Len(body) : body[i] \in {"0", "1"}
      v == DigitsValue([i \in 1 .. Len(body) |-> IF body[i] = "1" THEN 1 ELSE 0], Len(body), 2)
  IN IF ~ok THEN 0
     ELSE IF signed /\ s[1] = "-" THEN 0 - v ELSE v

(* utf8.DecodeRuneInString(s[i-1:]) for 1 <= i <= len(s): the rune and the *)
(* number of bytes it takes; an invalid sequence is U+FFFD of width 1.     *)
DecodeRune(s, i) ==
  LET n == Len(s)
      b0 == s[i]
      b1 == IF i + 1 <= n THEN s[i + 1] ELSE 0
      b2 == IF i + 2 <= n THEN s[i + 2] ELSE 0
      b3 == IF i + 3 <= n THEN s[i + 3] ELSE 0
      cont(b) == b \in 128 .. 191
      bad == [rune |-> runeError, size |-> 1]
  IN IF b0 < 128 THEN [rune |-> b0, size |-> 1]
     ELSE IF b0 \in 194 .. 223 THEN
       IF i + 1 <= n /\ cont(b1)
       THEN [rune |-> (b0 - 192) * 64 + (b1 - 128), size |-> 2] ELSE bad
     ELSE IF b0 \in 224 .. 239 THEN
       LET lo == IF b0 = 224 THEN 160 ELSE 128
           hi == IF b0 = 237 THEN 159 ELSE 191
       IN IF i + 2 <= n /\ b1 \in lo .. hi /\ cont(b2)
          THEN [rune |-> (b0 - 224) * 4096 + (b1 - 128) * 64 + (b2 - 128), size |-> 3]
          ELSE bad
     ELSE IF b0 \in 240 .. 244 THEN
       LET lo == IF b0 = 240 THEN 144 ELSE 128
           hi == IF b0 = 244 THEN 143 ELSE 191
       IN IF i + 3 <= n /\ b1 \in lo .. hi /\ cont(b2) /\ cont(b3)
          THEN [rune |-> (b0 - 240) * 262144 + (b1 - 128) * 4096 + (b2 - 128) * 64 + (b3 - 128),
                size |-> 4]
          ELSE bad
     ELSE bad

(* Whether a rune starts at byte i when the string is decoded from its     *)
(* start: a continuation byte is inside a rune exactly when a valid        *)
(* sequence that begins at most three bytes before covers it.              *)
RuneStart(s, i) ==
  \/ s[i] \notin 128 .. 191
  \/ ~ \E j \in Max2(1, i - 3) .. (i - 1) : s[j] >= 192 /\ DecodeRune(s, j).size > i - j

(* The runes of `for _, c := range s`.                                     *)
Runes(s) ==
  LET starts == SelectSeq([i \in 1 .. Len(s) |-> i], LAMBDA i : RuneStart(s, i))
  IN [k \in 1 .. Len(starts) |-> DecodeRune(s, starts[k]).rune]

-----------------------------------------------------------------------------
(* The pure functions of the bit-stream builder.                           *)

padLeft(binary, final) ==
  IF Len(binary) >= final THEN binary
  ELSE Repeat("0", final - Len(binary)) \o binary

padRight(binary, final) ==
  IF Len(binary) >= final THEN binary
  ELSE binary \o Repeat("0", final - Len(binary))

(* stringToBinary giving no bit at all for a number of value 0: the        *)
(* variant against which the claim on the unpadded groups is tested.       *)
stringToBinaryZeroEmpty(number) ==
  IF Len(number) = 0 \/ ParseInt10(number) = 0 THEN <<>>
  ELSE FormatInt2(ParseInt10(number))

stringToBinary(number) ==
  IF Len(number) = 0 THEN <<>> ELSE FormatInt2(ParseInt10(number))

(* The array has len(encoding)/8 bytes; byte(b) keeps the low eight bits.  *)
(* The callers pass a length that is a multiple of 8.                      *)
encodingToByteArray(encoding) ==
  [j \in 1 .. (Len(encoding) \div 8) |->
     ParseInt2(Slice(encoding, 8 * (j - 1), 8 * j)) % 256]

byteArrayToEncoding(array) ==
  Concat([k \in 1 .. Len(array) |-> padLeft(FormatInt2(array[k]), 8)])

(* binarySearch with the comparison array[mid] <= value in place of       *)
(* array[mid] < value: the variant against which the version claim is      *)
(* tested.                                                                 *)
RECURSIVE binarySearchLoopLessEqual(_, _, _, _)
binarySearchLoopLessEqual(array, value, low, high) ==
  IF low = high THEN low
  ELSE LET mid == (low + high) \div 2
       IN IF array[mid + 1] <= value
          THEN binarySearchLoopLessEqual(array, value, mid + 1, high)
          ELSE binarySearchLoopLessEqual(array, value, low, mid)

RECURSIVE binarySearchLoop(_, _, _, _)
binarySearchLoop(array, value, low, high) ==
  IF low = high THEN low
  ELSE LET mid == (low + high) \div 2
       IN IF array[mid + 1] < value
          THEN binarySearchLoop(array, value, mid + 1, high)
          ELSE binarySearchLoop(array, value, low, mid)

binarySearch(array, value) == binarySearchLoop(array, value, 0, versions)

(* regexNumeric "^.[0-9]*$": one character that is not a newline, then     *)
(* only digits up to the end of the text.  Every character of the class    *)
(* is a single byte below 128, so "the rest is in the class" is a test of  *)
(* the bytes after the first rune.                                         *)
matchNumeric(data) ==
  /\ Len(data) > 0
  /\ LET first == DecodeRune(data, 1)
     IN /\ first.rune # chNewline
        /\ \A i \in (first.size + 1) .. Len(data) : data[i] \in digitChars

(* regexAlpha "^.[0-9A-Z /.:%+\$\-\*]*$".                                   *)
matchAlpha(data) ==
  /\ Len(data) > 0
  /\ LET first == DecodeRune(data, 1)
     IN /\ first.rune # chNewline
        /\ \A i \in (first.size + 1) .. Len(data) : data[i] \in DOMAIN alphaTable

mode(data) ==
  IF matchNumeric(data) THEN numeric
  ELSE IF matchAlpha(data) THEN alpha
  ELSE byteMode

version(m, length) ==
  IF m = numeric THEN binarySearch(maxCharsNumeric, length) + 1
  ELSE IF m = alpha THEN binarySearch(maxCharsAlpha, length) + 1
  ELSE binarySearch(maxCharsBytes, length) + 1

(* indCount with version 26 in the last range, as the comment above the    *)
(* function ("Version [26, 40]") reads: the variant against which the      *)
(* claim on the widths is tested.                                          *)
indCountRangeFrom26(length, m, v) ==
  LET count == FormatInt2(length)
  IN IF v >= 1 /\ v <= 9 THEN
       IF m = numeric THEN padLeft(count, 10)
       ELSE IF m = alpha THEN padLeft(count, 9)
       ELSE padLeft(count, 8)
     ELSE IF v >= 10 /\ v < 26 THEN
       IF m = numeric THEN padLeft(count, 12)
       ELSE IF m = alpha THEN padLeft(count, 11)
       ELSE padLeft(count, 16)
     ELSE
       IF m = numeric THEN padLeft(count, 14)
       ELSE IF m = alpha THEN padLeft(count, 13)
       ELSE padLeft(count, 16)

indCount(length, m, v) ==
  LET count == FormatInt2(length)
  IN IF v >= 1 /\ v <= 9 THEN
       IF m = numeric THEN padLeft(count, 10)
       ELSE IF m = alpha THEN padLeft(count, 9)
       ELSE padLeft(count, 8)
     ELSE IF v >= 10 /\ v <= 26 THEN
       IF m = numeric THEN padLeft(count, 12)
       ELSE IF m = alpha THEN padLeft(count, 11)
       ELSE padLeft(count, 16)
     ELSE
       IF m = numeric THEN padLeft(count, 14)
       ELSE IF m = alpha THEN padLeft(count, 13)
       ELSE padLeft(count, 16)

(* encNumeric without its last statement, the encoding of the rest        *)
(* data[i:]: the variant against which the group-width claim is tested.    *)
encNumericFullGroupsOnly(data) ==
  LET full == Len(data) \div 3
  IN Concat([k \in 1 .. full |-> stringToBinary(Slice(data, 3 * (k - 1), 3 * k))])

(* The loop takes the groups data[3k : 3k+3] while 3k <= len(data)-3; the  *)
(* rest, data[i:], has zero, one or two bytes.                             *)
encNumeric(data) ==
  LET full == Len(data) \div 3
      groups == [k \in 1 .. full |-> stringToBinary(Slice(data, 3 * (k - 1), 3 * k))]
  IN Concat(groups) \o stringToBinary(Slice(data, 3 * full, Len(data)))

(* encAlpha with the hanging character written without padLeft: the       *)
(* variant against which the claim on the widths of encAlpha is tested.    *)
encAlphaTailUnpadded(data) ==
  LET full == Len(data) \div 2
      pairs == [k \in 1 .. full |->
                  padLeft(FormatInt2(alphaTableAt(data[2 * k - 1]) * 45 + alphaTableAt(data[2 * k])), 11)]
      tail == Slice(data, 2 * full, Len(data))
  IN IF tail = <<>> THEN Concat(pairs)
     ELSE Concat(pairs) \o FormatInt2(alphaTableAt(tail[1]))

encAlpha(data) ==
  LET full == Len(data) \div 2
      pairs == [k \in 1 .. full |->
                  padLeft(FormatInt2(alphaTableAt(data[2 * k - 1]) * 45 + alphaTableAt(data[2 * k])), 11)]
      tail == Slice(data, 2 * full, Len(data))
  IN IF tail = <<>> THEN Concat(pairs)
     ELSE Concat(pairs) \o padLeft(FormatInt2(alphaTableAt(tail[1])), 6)

encBytes(data) ==
  LET rs == Runes(data)
  IN Concat([k \in 1 .. Len(rs) |-> padLeft(FormatInt2(rs[k]), 8)])

terminator(encoding, v) ==
  LET length == Len(encoding)
      blocks == blockInfoAt(v, 0)
  IN IF blocks * 8 - length = 0 THEN encodingToByteArray(encoding)
     ELSE LET rest == 8 - (length % 8)
              padding == padRight(encoding, length + rest)
              numPads == blocks - (Len(padding) \div 8)
              pads == [i \in 1 .. Max2(numPads, 0) |-> terminatorPads[((i - 1) % 2) + 1]]
          IN encodingToByteArray(padding \o Concat(pads))

encoding(data, length, m, v) ==
  IF m = numeric THEN terminator(indNumeric \o indCount(length, m, v) \o encNumeric(data), v)
  ELSE IF m = alpha THEN terminator(indAlpha \o indCount(length, m, v) \o encAlpha(data), v)
  ELSE terminator(indBytes \o indCount(length, m, v) \o encBytes(data), v)

-----------------------------------------------------------------------------
(* GF(2^8) with primitive polynomial 0x11d and generator 2, and the        *)
(* Reed-Solomon encoder over it (NewField, NewRSEncoder, ECC).             *)

fieldPoly == 285
fieldGenerator == 2

(* Bitwise exclusive or of two numbers below 2^9.                          *)
Xor(a, b) ==
  LET bit(x, k) == (x \div (2 ^ k)) % 2
      d(k) == ((bit(a, k) + bit(b, k)) % 2) * (2 ^ k)
  IN d(0) + d(1) + d(2) + d(3) + d(4) + d(5) + d(6) + d(7) + d(8)

(* x times the generator, reduced by the primitive polynomial.             *)
gfDouble(x) ==
  IF x * fieldGenerator >= 256 THEN Xor(x * fieldGenerator, fieldPoly) ELSE x * fieldGenerator

gfExpStep(table, i) == Append(table, gfDouble(table[i]))

(* exp[i] = g^i for i in 0..254, as the sequence <<g^0, ..., g^254>>.      *)
gfExpTable == ForRange(gfExpStep, 1, 254, <<1>>)

gfExp(i) == gfExpTable[i + 1]

gfLogStep(table, i) == [table EXCEPT ![gfExp(i)] = i]

(* log[exp[i]] = i, as a sequence over 1..255.                             *)
gfLogTable == ForRange(gfLogStep, 0, 254, Repeat(0, 255) \o <<>>)

gfLog(x) == gfLogTable[x]

gfMul(a, b) ==
  IF a = 0 \/ b = 0 THEN 0 ELSE gfExp((gfLog(a) + gfLog(b)) % 255)

(* g times (x - g^i), for g of i+1 coefficients, highest first.            *)
rsGeneratorStep(g, i) ==
  [k \in 1 .. (Len(g) + 1) |->
     Xor(IF k <= Len(g) THEN g[k] ELSE 0,
         IF k >= 2 THEN gfMul(g[k - 1], gfExp(i)) ELSE 0)]

(* G(x) = product over i in 0..e-1 of (x - g^i), highest coefficient       *)
(* first: e+1 coefficients.                                                *)
rsGenerator(e) == ForRange(rsGeneratorStep, 0, e - 1, <<1>>)

(* One step of the synthetic division by gen: the remainder rem of e       *)
(* coefficients after one more data codeword d.                            *)
rsDivideStep(gen, rem, d) ==
  LET e == Len(rem)
      factor == Xor(d, rem[1])
  IN [j \in 1 .. e |->
        Xor(IF j < e THEN rem[j + 1] ELSE 0, gfMul(factor, gen[j + 1]))]

(* enc.ECC(data, check): the e coefficients of (M(x) * x^e) mod G(x),      *)
(* most significant first.  The encoder st holds its generator gen and     *)
(* the remainder rem so far.                                               *)
rsECC(data, e) ==
  LET step(st, k) == [gen |-> st.gen, rem |-> rsDivideStep(st.gen, st.rem, data[k])]
  IN IF e = 0 THEN <<>>
     ELSE ForRange(step, 1, Len(data),
                   [gen |-> rsGenerator(e) \o <<>>, rem |-> Repeat(0, e) \o <<>>]).rem

-----------------------------------------------------------------------------
(* Block splitter and interleaver.                                         *)

(* The slice array[x : x+w] of correction is in range.                     *)
correctionInRange(array, numB1, numB2, numW1, numW2) ==
  numB1 * numW1 + numB2 * numW2 <= Len(array)

(* correction with every block cut as a block of group 1 (x += numW1 in   *)
(* both branches): the variant against which the claim on correction is    *)
(* tested.                                                                 *)
correctionGroup1Lengths(array, numErr, numB1, numB2, numW1, numW2) ==
  LET check == [i \in 1 .. (numB1 + numB2) |->
                  rsECC(Slice(array, (i - 1) * numW1, i * numW1), numErr)]
  IN Concat(check)

(* Block i (0-based) starts at x = i*numW1 for a group-1 block and at      *)
(* numB1*numW1 + (i-numB1)*numW2 for a group-2 block; its check bytes go   *)
(* to correction[i*numErr : (i+1)*numErr].                                 *)
correction(array, numErr, numB1, numB2, numW1, numW2) ==
  LET blockStart(i) == IF i < numB1 THEN i * numW1 ELSE numB1 * numW1 + (i - numB1) * numW2
      blockLen(i) == IF i < numB1 THEN numW1 ELSE numW2
      check == [i \in 1 .. (numB1 + numB2) |->
                  rsECC(Slice(array, blockStart(i - 1), blockStart(i - 1) + blockLen(i - 1)), numErr)]
  IN Concat(check)

(* The column loop of interleaveData without the else branch             *)
(* y += blocks1 * words1: the variant against which the claim on the       *)
(* order of interleaveData is tested.                                      *)
interleaveDataStepNoSkip(array, blocks1, blocks2, words1, words2, st, i) ==
  LET take1 == st.b1 < words1
      n1 == IF take1 THEN blocks1 ELSE 0
      x1 == st.x + n1
      y1 == IF take1 THEN i + blocks1 * words1 ELSE i
      take2 == st.b2 < words2
      n2 == IF take2 THEN blocks2 ELSE 0
  IN [inter |-> [k \in 1 .. Len(st.inter) |->
                   IF k - 1 >= st.x /\ k - 1 < x1
                   THEN array[i + (k - 1 - st.x) * words1 + 1]
                   ELSE IF k - 1 >= x1 /\ k - 1 < x1 + n2
                   THEN array[y1 + (k - 1 - x1) * words2 + 1]
                   ELSE st.inter[k]],
      x |-> x1 + n2,
      b1 |-> IF take1 THEN st.b1 + 1 ELSE st.b1,
      b2 |-> IF take2 THEN st.b2 + 1 ELSE st.b2]

(* One iteration of the column loop of interleaveData for column i: st    *)
(* holds inter (the output so far), x (the next output index) and b1, b2   *)
(* (the columns of each group done so far).  The inner loops copy          *)
(* array[y], y stepping by the block length, to inter[x], inter[x+1], ...  *)
interleaveDataStep(array, blocks1, blocks2, words1, words2, st, i) ==
  LET take1 == st.b1 < words1
      n1 == IF take1 THEN blocks1 ELSE 0
      x1 == st.x + n1
      y1 == i + blocks1 * words1
      take2 == st.b2 < words2
      n2 == IF take2 THEN blocks2 ELSE 0
  IN [inter |-> [k \in 1 .. Len(st.inter) |->
                   IF k - 1 >= st.x /\ k - 1 < x1
                   THEN array[i + (k - 1 - st.x) * words1 + 1]
                   ELSE IF k - 1 >= x1 /\ k - 1 < x1 + n2
                   THEN array[y1 + (k - 1 - x1) * words2 + 1]
                   ELSE st.inter[k]],
      x |-> x1 + n2,
      b1 |-> IF take1 THEN st.b1 + 1 ELSE st.b1,
      b2 |-> IF take2 THEN st.b2 + 1 ELSE st.b2]

interleaveData(array, blocks1, blocks2, words1, words2) ==
  LET step(st, i) == interleaveDataStep(array, blocks1, blocks2, words1, words2, st, i)
  IN ForRange(step, 0, Max2(words1, words2) - 1,
              [inter |-> Repeat(0, Len(array)) \o <<>>, x |-> 0, b1 |-> 0, b2 |-> 0]).inter

(* Output index y = i*(numB1+numB2) + j reads input index x = i + j*numErr. *)
(* interleaveError with the inner loop over the blocks of the first group  *)
(* only: the variant against which the claim on the transposition is       *)
(* tested.                                                                 *)
interleaveErrorGroup1Only(array, numErr, numB1, numB2) ==
  LET nb == numB1
  IN [k \in 1 .. Len(array) |->
        IF k - 1 < numErr * nb
        THEN array[((k - 1) \div nb) + ((k - 1) % nb) * numErr + 1]
        ELSE 0]

interleaveError(array, numErr, numB1, numB2) ==
  LET nb == numB1 + numB2
  IN [k \in 1 .. Len(array) |->
        IF k - 1 < numErr * nb
        THEN array[((k - 1) \div nb) + ((k - 1) % nb) * numErr + 1]
        ELSE 0]

interleave(enc, numErr, b1, b2, w1, w2, remainder) ==
  LET errorBytes == correction(enc, numErr, b1, b2, w1, w2)
      interData == interleaveData(enc, b1, b2, w1, w2)
      interError == interleaveError(errorBytes, numErr, b1, b2)
      inter == byteArrayToEncoding(interData) \o byteArrayToEncoding(interError)
  IN padRight(inter, Len(inter) + remainder)

-----------------------------------------------------------------------------
(* The canvas: canvas[r][c] is a cell [color, data] for r, c in 0..N-1.    *)

Cell(color, data) == [color |-> color, data |-> data]

Size(canvas) == Cardinality(DOMAIN canvas)

(* strconv.Atoi of one character of a bit string, the error dropped.       *)
Atoi(ch) == IF ch = "1" THEN 1 ELSE 0

(* newCanvas with rows one cell short, so that the canvas is not square:   *)
(* the variant against which the claim on the size is tested.              *)
newCanvasShortRows(modules) ==
  [r \in 0 .. (modules - 1) |-> [c \in 0 .. (modules - 2) |-> Cell(0, TRUE)]]

newCanvas(modules) ==
  [r \in 0 .. (modules - 1) |-> [c \in 0 .. (modules - 1) |-> Cell(0, TRUE)]]

copyCanvas(canvas) ==
  [r \in DOMAIN canvas |-> [c \in DOMAIN canvas[r] |->
     Cell(canvas[r][c].color, canvas[r][c].data)]]

drawPattern(canvas, row, col, size) ==
  LET inner == size - 2
  IN [r \in DOMAIN canvas |-> [c \in DOMAIN canvas[r] |->
       IF r >= row /\ r < row + size /\ c >= col /\ c < col + size
       THEN IF \/ c >= col + 1 /\ c <= col + inner /\ r = row + 1
               \/ c >= col + 1 /\ c <= col + inner /\ r = row + inner
               \/ r >= row + 1 /\ r <= row + inner /\ c = col + 1
               \/ r >= row + 1 /\ r <= row + inner /\ c = col + inner
            THEN Cell(0, FALSE)
            ELSE Cell(1, FALSE)
       ELSE canvas[r][c]]]

placeFinderPatterns(canvas, modules) ==
  drawPattern(drawPattern(drawPattern(canvas, 0, 0, 7), modules - 7, 0, 7), 0, modules - 7, 7)

(* The cells (row, col + i*dc) and (row + i*dr, col) for i in 0..7.        *)
drawSeperator(canvas, row, col, dr, dc) ==
  [r \in DOMAIN canvas |-> [c \in DOMAIN canvas[r] |->
     IF \/ r = row /\ \E i \in 0 .. 7 : c = col + i * dc
        \/ c = col /\ \E i \in 0 .. 7 : r = row + i * dr
     THEN Cell(0, FALSE)
     ELSE canvas[r][c]]]

placeSeparator(canvas, modules) ==
  drawSeperator(drawSeperator(drawSeperator(canvas, 7, 7, -1, -1), 7, modules - 8, -1, 1),
                modules - 8, 7, 1, -1)

(* The loop runs for i = 0, 2, 4, ... while i < len(patterns)-1.           *)
(* placeAlignmentPatterns taking each coordinate pair for the top-left     *)
(* cell of the pattern instead of its centre: the variant against which    *)
(* the claim on the alignment patterns is tested.                          *)
placeAlignmentPatternsFromCorner(canvas, v) ==
  LET patterns == alignmentPatternsAt(v)
      step(cv, k) == drawPattern(cv, patterns[2 * k + 1], patterns[2 * k + 2], 5)
  IN ForRange(step, 0, (Len(patterns) \div 2) - 1, canvas)

placeAlignmentPatterns(canvas, v) ==
  LET patterns == alignmentPatternsAt(v)
      step(cv, k) == drawPattern(cv, patterns[2 * k + 1] - 2, patterns[2 * k + 2] - 2, 5)
  IN ForRange(step, 0, (Len(patterns) \div 2) - 1, canvas)

drawTimingPattern(canvas, modules) ==
  LET length == modules - 14
      onLine(i) == i >= 6 /\ i < 6 + length
  IN [r \in DOMAIN canvas |-> [c \in DOMAIN canvas[r] |->
       IF r = 6 /\ onLine(c) THEN Cell(IF c % 2 = 0 THEN 1 ELSE 0, FALSE)
       ELSE IF c = 6 /\ onLine(r) THEN Cell(IF r % 2 = 0 THEN 1 ELSE 0, FALSE)
       ELSE canvas[r][c]]]

drawDarkModule(canvas, v) ==
  LET r == (4 * v) + 9
  IN [canvas EXCEPT ![r][8] = Cell(1, FALSE)]

reserveFormatInformationArea(canvas, modules) ==
  [r \in DOMAIN canvas |-> [c \in DOMAIN canvas[r] |->
     IF \/ r = 8 /\ \E i \in 0 .. 8 : (i # 6 /\ c = i) \/ (i # 0 /\ c = modules - i)
        \/ c = 8 /\ \E i \in 0 .. 7 : (i # 6 /\ r = i) \/ (i # 0 /\ r = modules - i)
     THEN Cell(canvas[r][c].color, FALSE)
     ELSE canvas[r][c]]]

reserveVersionInformationData(canvas, modules) ==
  [r \in DOMAIN canvas |-> [c \in DOMAIN canvas[r] |->
     IF \/ r \in {modules - 11, modules - 10, modules - 9} /\ c \in 0 .. 5
        \/ c \in {modules - 9, modules - 10, modules - 11} /\ r \in 0 .. 5
     THEN Cell(canvas[r][c].color, FALSE)
     ELSE canvas[r][c]]]

(* One pass of the column loop of drawDataBits over the pair (c, c-1):     *)
(* the cells in the order they are visited, right column before left in    *)
(* each row, rows from the bottom when up and from the top otherwise.      *)
pairVisit(modules, c, up) ==
  [k \in 1 .. (2 * modules) |->
     << IF up THEN modules - 1 - ((k - 1) \div 2) ELSE (k - 1) \div 2,
        c - ((k - 1) % 2) >>]

(* The visited cells that take a bit, in order.                            *)
pairDataCells(canvas, modules, c, up) ==
  SelectSeq(pairVisit(modules, c, up), LAMBDA rc : canvas[rc[1]][rc[2]].data)

(* The canvas after the pass, the first bit read being interleaved[i]      *)
(* (0-based): the k-th data cell of the pass gets bit i + k - 1.           *)
pairDraw(canvas, interleaved, modules, c, up, i) ==
  LET visit == pairVisit(modules, c, up)
      at(r, cc) == IF up THEN 2 * (modules - 1 - r) + (c - cc) + 1 ELSE 2 * r + (c - cc) + 1
      before(k) == Cardinality({j \in 1 .. (k - 1) : canvas[visit[j][1]][visit[j][2]].data})
  IN [r \in DOMAIN canvas |-> [cc \in DOMAIN canvas[r] |->
       IF cc \in {c, c - 1} /\ canvas[r][cc].data
       THEN Cell(Atoi(interleaved[i + before(at(r, cc)) + 1]), TRUE)
       ELSE canvas[r][cc]]]

mask0(row, col) == (row + col) % 2 = 0
mask1(row, col) == row % 2 = 0
mask2(row, col) == col % 3 = 0
mask3(row, col) == (row + col) % 3 = 0
(* mask4 with the divisors of row and column exchanged: the variant        *)
(* against which the claim on the mask predicates is tested.               *)
mask4DivisorsSwapped(row, col) == ((row \div 3) + (col \div 2)) % 2 = 0

mask4(row, col) == ((row \div 2) + (col \div 3)) % 2 = 0
mask5(row, col) == ((row * col) % 2) + ((row * col) % 3) = 0
mask6(row, col) == (((row * col) % 2) + ((row * col) % 3)) % 2 = 0
mask7(row, col) == (((row + col) % 2) + ((row * col) % 3)) % 2 = 0

(* masks[i](row, col).                                                     *)
masks(i, row, col) ==
  CASE i = 0 -> mask0(row, col) [] i = 1 -> mask1(row, col)
    [] i = 2 -> mask2(row, col) [] i = 3 -> mask3(row, col)
    [] i = 4 -> mask4(row, col) [] i = 5 -> mask5(row, col)
    [] i = 6 -> mask6(row, col) [] i = 7 -> mask7(row, col)

(* maskCanvas without the test of the data flag: the variant against      *)
(* which the claim on the function patterns of the final matrix is tested. *)
maskCanvasEveryCell(canvas, i) ==
  LET masked == copyCanvas(canvas)
  IN [r \in DOMAIN masked |-> [c \in DOMAIN masked[r] |->
       IF masks(i, r, c)
       THEN Cell(1 - masked[r][c].color, masked[r][c].data)
       ELSE masked[r][c]]]

maskCanvas(canvas, i) ==
  LET masked == copyCanvas(canvas)
  IN [r \in DOMAIN masked |-> [c \in DOMAIN masked[r] |->
       IF masked[r][c].data /\ masks(i, r, c)
       THEN Cell(1 - masked[r][c].color, masked[r][c].data)
       ELSE masked[r][c]]]

-----------------------------------------------------------------------------
(* maskCanvas on cells held by reference, as [][]*Cell holds them: cells   *)
(* is the sequence of all cells allocated so far, a reference is an index  *)
(* into it, and a canvas is a matrix of references.                        *)

(* The cells a matrix of references points to.                             *)
cellsOf(cells, canvas) ==
  [r \in DOMAIN canvas |-> [c \in DOMAIN canvas[r] |-> cells[canvas[r][c]]]]

(* A canvas of values as freshly allocated cells, row by row.              *)
allocCanvas(cells, canvas) ==
  LET length == Size(canvas)
  IN [cells |-> cells \o [k \in 1 .. (length * length) |->
                            canvas[(k - 1) \div length][(k - 1) % length]],
      canvas |-> [r \in 0 .. (length - 1) |-> [c \in 0 .. (length - 1) |->
                    Len(cells) + r * length + c + 1]]]

(* newCanvas: modules * modules new cells &Cell{0, true}.                  *)
newCanvasRefs(cells, modules) == allocCanvas(cells, newCanvas(modules))

(* copyCanvas with copy[r][c] = canvas[r][c], the reference instead of a   *)
(* new cell: the variant against which the claim on the untouched input    *)
(* is tested.                                                              *)
copyCanvasRefsShared(cells, canvas, copy) == [cells |-> cells, canvas |-> canvas]

(* copyCanvas: copy[r][c] = &Cell{color, data}, a new cell for every cell  *)
(* of canvas; the cells copy pointed to before are dropped.                *)
copyCanvasRefs(cells, canvas, copy) == allocCanvas(cells, cellsOf(cells, canvas))

(* maskCanvas: masked[r][c].color ^= 1 through the references of masked,   *)
(* cell after cell.                                                        *)
maskCanvasRefs(cells, canvas, i) ==
  LET length == Size(canvas)
      fresh == newCanvasRefs(cells, length)
      masked == copyCanvasRefs(fresh.cells, canvas, fresh.canvas)
      step(cs, k) ==
        LET r == k \div length
            c == k % length
            ref == masked.canvas[r][c]
        IN IF cs[ref].data /\ masks(i, r, c)
           THEN [cs EXCEPT ![ref] = Cell(1 - cs[ref].color, cs[ref].data)]
           ELSE cs
  IN [cells |-> ForRange(step, 0, length * length - 1, masked.cells),
      canvas |-> masked.canvas]

(* Two iterations of the loop of dataMasking on the same qr.Canvas, with   *)
(* masks[i] and then masks[j]: the canvas afterwards and the two results.  *)
maskCanvasTwice(canvas, i, j) ==
  LET start == allocCanvas(<<>>, canvas)
      first == maskCanvasRefs(start.cells, start.canvas, i)
      second == maskCanvasRefs(first.cells, start.canvas, j)
  IN [canvas |-> cellsOf(second.cells, start.canvas),
      first |-> cellsOf(second.cells, first.canvas),
      second |-> cellsOf(second.cells, second.canvas)]

-----------------------------------------------------------------------------
(* Penalties and the choice of the mask.                                   *)

penaltySequences ==
  << Bits(<<1,0,1,1,1,0,1,0,0,0,0>>), Bits(<<0,0,0,0,1,0,1,1,1,0,1>>) >>

(* One iteration of the inner loop of pen1 at column c of a row: st is     *)
(* <<count, prev, total>>.                                                 *)
pen1Step(row, st, c) ==
  IF row[c].color = st[2]
  THEN <<st[1] + 1, st[2], st[3]>>
  ELSE <<1, row[c].color, IF st[1] - 5 >= 0 THEN st[3] + (3 + (st[1] - 5)) ELSE st[3]>>

(* The penalty of one row, the last run included.                          *)
pen1Row(row) ==
  LET step(st, c) == pen1Step(row, st, c)
      st == ForRange(step, 0, Cardinality(DOMAIN row) - 1, <<0, -1, 0>>)
  IN IF st[1] - 5 >= 0 THEN st[3] + (3 + (st[1] - 5)) ELSE st[3]

(* f[0] + ... + f[n-1].                                                    *)
SumUpTo(f, n) ==
  LET step(total, i) == total + f[i]
  IN ForRange(step, 0, n - 1, 0)

pen1(masked) ==
  LET length == Size(masked)
  IN SumUpTo([r \in 0 .. (length - 1) |-> pen1Row(masked[r])], length)

pen2(masked) ==
  LET length == Size(masked)
      sum(r, c) == masked[r][c].color + masked[r][c + 1].color
                   + masked[r + 1][c].color + masked[r + 1][c + 1].color
  IN 3 * Cardinality({rc \in (0 .. 0) \X (0 .. (length - 2)) :
                         sum(rc[1], rc[2]) = 0 \/ sum(rc[1], rc[2]) = 4})

(* The number of positions of s at which sub occurs.                       *)
substringOccurrences(s, sub) ==
  Cardinality({i \in 0 .. (Len(s) - Len(sub)) : Slice(s, i, i + Len(sub)) = sub})

pen3(masked) ==
  LET length == Size(masked)
      row(i) == [j \in 1 .. length |-> IF masked[i][j - 1].color = 1 THEN "1" ELSE "0"]
      col(i) == [j \in 1 .. length |-> IF masked[j - 1][i].color = 1 THEN "1" ELSE "0"]
  IN SumUpTo([i \in 0 .. (length - 1) |->
                substringOccurrences(row(i), penaltySequences[1]) * 40
                + substringOccurrences(col(i), penaltySequences[2]) * 40], length)

Abs(x) == IF x < 0 THEN 0 - x ELSE x

(* ratio = numBlack / numModules * 100 is a float64 in the source; int()   *)
(* truncates, and ratio/5 is numBlack*20/numModules, taken exactly here.   *)
pen4(masked) ==
  LET length == Size(masked)
      numModules == length * length
      numBlack == SumUpTo([r \in 0 .. (length - 1) |->
                             Cardinality({c \in 0 .. (length - 1) : masked[r][c].color = 1})],
                          length)
      low == ((numBlack * 20) \div numModules) * 5
      up == (((numBlack * 20) \div numModules) + 1) * 5
      down == Abs(low - 50)
      top == Abs(up - 50)
  IN IF down <= top THEN (down * 10) \div 5 ELSE (top * 10) \div 5

penalty(masked) == pen1(masked) + pen2(masked) + pen3(masked) + pen4(masked)

(* math.MaxInt64 of the source; every penalty is far below either number.  *)
maxInt == 2147483647

-----------------------------------------------------------------------------
(* Format and version information.                                         *)

(* The writes of drawFormatInformationString, in the order of the source:  *)
(* each is <<row, col, index into fis (0-based)>>.                         *)
formatWrites(modules) ==
  LET first == [k \in 1 .. 14 |->
                  LET i == (k - 1) \div 2
                  IN IF k % 2 = 1
                     THEN << 8, IF i = 6 THEN i + 1 ELSE i, i >>
                     ELSE << modules - (i + 1), 8, i >>]
      second == [k \in 1 .. 16 |->
                   LET i == (k - 1) \div 2
                   IN IF k % 2 = 1
                      THEN << 8 - i, 8, i + 7 >>
                      ELSE << 8, modules - (8 - i), i + 7 >>]
  IN first \o SelectSeq(second, LAMBDA w : w[3] - 7 # 2)

(* canvas[row][col].color = Atoi(str[index]) for each write, in order.     *)
applyWrites(canvas, writes, str) ==
  LET step(cv, k) ==
        [cv EXCEPT ![writes[k][1]][writes[k][2]].color = Atoi(str[writes[k][3] + 1])]
  IN ForRange(step, 1, Len(writes), canvas)

drawFormatInformationString(canvas, modules, mask) ==
  applyWrites(canvas, formatWrites(modules), formatInformationStrings[mask + 1])

(* The writes of drawVersionInformationString: x counts 0..17 as i goes    *)
(* from 5 down to 0 and j from 0 to 2.                                     *)
(* The cells of drawVersionInformationString with the outer loop running   *)
(* from column 0 to column 5: the variant against which the claim on the   *)
(* version information is tested.                                          *)
versionWritesAscending(modules) ==
  [k \in 1 .. 36 |->
     LET x == (k - 1) \div 2
         i == x \div 3
         j == x % 3
     IN IF k % 2 = 1
        THEN << modules - (9 + j), i, x >>
        ELSE << i, modules - (9 + j), x >>]

versionWrites(modules) ==
  [k \in 1 .. 36 |->
     LET x == (k - 1) \div 2
         i == 5 - (x \div 3)
         j == x % 3
     IN IF k % 2 = 1
        THEN << modules - (9 + j), i, x >>
        ELSE << i, modules - (9 + j), x >>]

(* versionInformationStrings[version-7] is an index into a slice.          *)
versionStringInRange(v) == v - 7 >= 0 /\ v - 7 < Len(versionInformationStrings)

drawVersionInformationString(canvas, modules, v) ==
  applyWrites(canvas, versionWrites(modules), versionInformationStrings[v - 7 + 1])

-----------------------------------------------------------------------------
(* NewQR as a state machine: pc names the next statement of NewQR, qr is   *)
(* the QR value under construction, loc holds the loop variables of        *)
(* drawDataBits (c, up, i) and dataMasking (k, winner, mask, min), arg is  *)
(* the argument and ret the outcome of the call: "none" while it runs,     *)
(* "qr" for (&qr, nil), "error" for (nil, err), "panic" for a run-time     *)
(* panic (an index or slice bound out of range).                           *)

MaxLen == 2

shortAlphabet == {chZero + 1, chUpperA, chLowerA}

RECURSIVE StringsOfLen(_, _)
StringsOfLen(S, n) ==
  IF n = 0 THEN {<<>>}
  ELSE {Append(s, ch) : s \in StringsOfLen(S, n - 1), ch \in S}

StringsUpTo(S, n) == UNION {StringsOfLen(S, k) : k \in 0 .. n}

(* Inputs one character longer than the capacity of version v in the       *)
(* digit table or the byte table, ten bytes that are no UTF-8, inputs that *)
(* fill the versions 3 to 12 in the digit table and the byte table, and a  *)
(* digit behind a sign.                                                    *)
longInputs ==
  {Repeat(chZero, maxCharsNumeric[v] + 1) : v \in {1, 6, 12, 40}}
    \cup {Repeat(chLowerA, maxCharsBytes[v] + 1) : v \in {1, 6}}
    \cup {Repeat(255, 10)}
    \cup {Repeat(chZero + 7, maxCharsNumeric[v]) : v \in 3 .. 12}
    \cup {Repeat(chLowerA, maxCharsBytes[v]) : v \in 3 .. 12}
    \cup {<<chMinus, chZero + 1>>, <<chPlus, chZero + 1>>}

Inputs == StringsUpTo(shortAlphabet, MaxLen) \cup longInputs

zeroQR ==
  [Data |-> <<>>, Length |-> 0, Mode |-> 0, Version |-> 0, Modules |-> 0,
   Errors |-> 0, Block1 |-> 0, Words1 |-> 0, Block2 |-> 0, Words2 |-> 0,
   Encoding |-> <<>>, Correction |-> <<>>, Interleaved |-> <<>>, Mask |-> 0,
   Canvas |-> <<>>]

zeroLoc ==
  [c |-> 0, up |-> TRUE, i |-> 0, k |-> 0, winner |-> <<>>, mask |-> -1, min |-> maxInt]

Init ==
  /\ arg \in Inputs
  /\ qr = zeroQR
  /\ loc = zeroLoc
  /\ pc = "NewQR"
  /\ ret = "none"
  /\ out = <<>>

Goto(label) == pc' = label /\ UNCHANGED <<ret, arg, out>>

Panic == pc' = "done" /\ ret' = "panic" /\ UNCHANGED <<qr, loc, arg, out>>

(* NewQR without the test len(data) == 0: the variant against which the   *)
(* empty-input claim is tested.                                            *)
NewQRNoLengthCheck ==
  /\ pc = "NewQR"
  /\ qr' = [zeroQR EXCEPT !.Data = arg, !.Length = Len(arg)]
  /\ Goto("mode") /\ UNCHANGED loc

NewQREnter ==
  /\ pc = "NewQR"
  /\ IF Len(arg) = 0
     THEN pc' = "done" /\ ret' = "error" /\ UNCHANGED <<qr, loc, arg, out>>
     ELSE /\ qr' = [zeroQR EXCEPT !.Data = arg, !.Length = Len(arg)]
          /\ Goto("mode") /\ UNCHANGED loc

Mode ==
  /\ pc = "mode"
  /\ qr' = [qr EXCEPT !.Mode = mode(qr.Data)]
  /\ Goto("version") /\ UNCHANGED loc

Version ==
  /\ pc = "version"
  /\ qr' = [qr EXCEPT !.Version = version(qr.Mode, qr.Length)]
  /\ Goto("blockInfo") /\ UNCHANGED loc

BlockInfo ==
  /\ pc = "blockInfo"
  /\ qr' = [qr EXCEPT !.Modules = ((qr.Version - 1) * 4 + 21),
                      !.Errors = blockInfoAt(qr.Version, 1),
                      !.Block1 = blockInfoAt(qr.Version, 2),
                      !.Words1 = blockInfoAt(qr.Version, 3),
                      !.Block2 = blockInfoAt(qr.Version, 4),
                      !.Words2 = blockInfoAt(qr.Version, 5)]
  /\ Goto("encoding") /\ UNCHANGED loc

Encoding ==
  /\ pc = "encoding"
  /\ qr' = [qr EXCEPT !.Encoding = encoding(qr.Data, qr.Length, qr.Mode, qr.Version)]
  /\ Goto("interleave") /\ UNCHANGED loc

Interleave ==
  /\ pc = "interleave"
  /\ IF ~correctionInRange(qr.Encoding, qr.Block1, qr.Block2, qr.Words1, qr.Words2)
     THEN Panic
     ELSE /\ qr' = [qr EXCEPT !.Interleaved =
                      interleave(qr.Encoding, qr.Errors, qr.Block1, qr.Block2,
                                 qr.Words1, qr.Words2, blockInfoAt(qr.Version, 6))]
          /\ Goto("newCanvas") /\ UNCHANGED loc

NewCanvas ==
  /\ pc = "newCanvas"
  /\ qr' = [qr EXCEPT !.Canvas = newCanvas(qr.Modules)]
  /\ Goto("placeFinderPatterns") /\ UNCHANGED loc

PlaceFinderPatterns ==
  /\ pc = "placeFinderPatterns"
  /\ qr' = [qr EXCEPT !.Canvas = placeFinderPatterns(qr.Canvas, qr.Modules)]
  /\ Goto("placeSeparator") /\ UNCHANGED loc

PlaceSeparator ==
  /\ pc = "placeSeparator"
  /\ qr' = [qr EXCEPT !.Canvas = placeSeparator(qr.Canvas, qr.Modules)]
  /\ Goto("placeAlignmentPatterns") /\ UNCHANGED loc

PlaceAlignmentPatterns ==
  /\ pc = "placeAlignmentPatterns"
  /\ qr' = [qr EXCEPT !.Canvas = placeAlignmentPatterns(qr.Canvas, qr.Version)]
  /\ Goto("drawTimingPattern") /\ UNCHANGED loc

DrawTimingPattern ==
  /\ pc = "drawTimingPattern"
  /\ qr' = [qr EXCEPT !.Canvas = drawTimingPattern(qr.Canvas, qr.Modules)]
  /\ Goto("drawDarkModule") /\ UNCHANGED loc

DrawDarkModule ==
  /\ pc = "drawDarkModule"
  /\ qr' = [qr EXCEPT !.Canvas = drawDarkModule(qr.Canvas, qr.Version)]
  /\ Goto("reserveFormatInformationArea") /\ UNCHANGED loc

(* Entering drawDataBits with the bit index i kept from the call before,   *)
(* as a package-level index would be: the variant against which the claim  *)
(* on repeated calls is tested.                                            *)
enterDrawDataBitsIndexKept ==
  [zeroLoc EXCEPT !.c = qr.Modules - 1, !.up = TRUE, !.i = loc.i]

(* Entering drawDataBits: i, up := 0, true and c := qr.Modules - 1.        *)
enterDrawDataBits == [zeroLoc EXCEPT !.c = qr.Modules - 1, !.up = TRUE, !.i = 0]

ReserveFormatInformationArea ==
  /\ pc = "reserveFormatInformationArea"
  /\ qr' = [qr EXCEPT !.Canvas = reserveFormatInformationArea(qr.Canvas, qr.Modules)]
  /\ IF qr.Version >= 7
     THEN Goto("reserveVersionInformationData") /\ UNCHANGED loc
     ELSE Goto("drawDataBits") /\ loc' = enterDrawDataBits

ReserveVersionInformationData ==
  /\ pc = "reserveVersionInformationData"
  /\ qr' = [qr EXCEPT !.Canvas = reserveVersionInformationData(qr.Canvas, qr.Modules)]
  /\ Goto("drawDataBits") /\ loc' = enterDrawDataBits

(* drawDataBits with up = !up moved behind the if, so that the skip over   *)
(* column 6 flips the direction too: the variant against which the claim   *)
(* on the visiting order is tested.                                        *)
DrawDataBitsSkipFlips ==
  /\ pc = "drawDataBits"
  /\ LET c == loc.c
         n == Len(pairDataCells(qr.Canvas, qr.Modules, c, loc.up))
         cNext == IF c = 6 THEN (c + 1) - 2 ELSE c - 2
         leave == IF cNext > 0 THEN "drawDataBits" ELSE "dataMasking"
     IN IF c = 6
        THEN /\ loc' = [loc EXCEPT !.c = cNext, !.up = ~loc.up]
             /\ Goto(leave) /\ UNCHANGED qr
        ELSE IF loc.i + n > Len(qr.Interleaved)
        THEN Panic
        ELSE /\ qr' = [qr EXCEPT !.Canvas =
                         pairDraw(qr.Canvas, qr.Interleaved, qr.Modules, c, loc.up, loc.i)]
             /\ loc' = [loc EXCEPT !.c = cNext, !.up = ~loc.up, !.i = loc.i + n]
             /\ Goto(leave)

(* One iteration of the column loop of drawDataBits, and the test c > 0    *)
(* that follows its c -= 2.                                                *)
DrawDataBits ==
  /\ pc = "drawDataBits"
  /\ LET c == loc.c
         n == Len(pairDataCells(qr.Canvas, qr.Modules, c, loc.up))
         cNext == IF c = 6 THEN (c + 1) - 2 ELSE c - 2
         leave == IF cNext > 0 THEN "drawDataBits" ELSE "dataMasking"
     IN IF c = 6
        THEN /\ loc' = [loc EXCEPT !.c = cNext]
             /\ Goto(leave) /\ UNCHANGED qr
        ELSE IF loc.i + n > Len(qr.Interleaved)
        THEN Panic
        ELSE /\ qr' = [qr EXCEPT !.Canvas =
                         pairDraw(qr.Canvas, qr.Interleaved, qr.Modules, c, loc.up, loc.i)]
             /\ loc' = [loc EXCEPT !.c = cNext, !.up = ~loc.up, !.i = loc.i + n]
             /\ Goto(leave)

(* dataMasking without the assignment min = penalty: the variant against  *)
(* which the claim on the choice of the mask is tested.                    *)
DataMaskingMinNotUpdated ==
  /\ pc = "dataMasking"
  /\ IF loc.k < 8
     THEN LET masked == maskCanvas(qr.Canvas, loc.k)
              p == penalty(masked)
          IN /\ loc' = IF p < loc.min
                       THEN [loc EXCEPT !.winner = masked, !.mask = loc.k, !.k = loc.k + 1]
                       ELSE [loc EXCEPT !.k = loc.k + 1]
             /\ Goto("dataMasking") /\ UNCHANGED qr
     ELSE /\ qr' = [qr EXCEPT !.Canvas = loc.winner, !.Mask = loc.mask]
          /\ Goto("drawFormatInformationString") /\ UNCHANGED loc

(* One iteration of the loop of dataMasking over the masks, or, after the  *)
(* eighth, the assignment of the winner.                                   *)
DataMasking ==
  /\ pc = "dataMasking"
  /\ IF loc.k < 8
     THEN LET masked == maskCanvas(qr.Canvas, loc.k)
              p == penalty(masked)
          IN /\ loc' = IF p < loc.min
                       THEN [loc EXCEPT !.winner = masked, !.mask = loc.k, !.min = p,
                                        !.k = loc.k + 1]
                       ELSE [loc EXCEPT !.k = loc.k + 1]
             /\ Goto("dataMasking") /\ UNCHANGED qr
     ELSE /\ qr' = [qr EXCEPT !.Canvas = loc.winner, !.Mask = loc.mask]
          /\ Goto("drawFormatInformationString") /\ UNCHANGED loc

Return == pc' = "done" /\ ret' = "qr" /\ UNCHANGED <<loc, arg, out>>

DrawFormatInformationString ==
  /\ pc = "drawFormatInformationString"
  /\ qr' = [qr EXCEPT !.Canvas = drawFormatInformationString(qr.Canvas, qr.Modules, qr.Mask)]
  /\ IF qr.Version >= 7
     THEN Goto("drawVersionInformationString") /\ UNCHANGED loc
     ELSE Return

DrawVersionInformationString ==
  /\ pc = "drawVersionInformationString"
  /\ IF ~versionStringInRange(qr.Version)
     THEN Panic
     ELSE /\ qr' = [qr EXCEPT !.Canvas =
                      drawVersionInformationString(qr.Canvas, qr.Modules, qr.Version)]
          /\ Return

Next ==
  \/ NewQREnter
  \/ Mode
  \/ Version
  \/ BlockInfo
  \/ Encoding
  \/ Interleave
  \/ NewCanvas
  \/ PlaceFinderPatterns
  \/ PlaceSeparator
  \/ PlaceAlignmentPatterns
  \/ DrawTimingPattern
  \/ DrawDarkModule
  \/ ReserveFormatInformationArea
  \/ ReserveVersionInformationData
  \/ DrawDataBits
  \/ DataMasking
  \/ DrawFormatInformationString
  \/ DrawVersionInformationString

Spec == Init /\ [][Next]_vars

-----------------------------------------------------------------------------
(* Properties of NewQR, stated over the behaviours of Spec.                *)

(* The capacity table version() searches for mode m.                       *)
maxChars(m) ==
  IF m = numeric THEN maxCharsNumeric
  ELSE IF m = alpha THEN maxCharsAlpha
  ELSE maxCharsBytes

(* The call has returned or panicked on a non-empty input.                 *)
Finished == pc = "done" /\ Len(arg) > 0

(* mode() has run on a non-empty input.                                    *)
ModeSet == pc \notin {"NewQR", "mode"} /\ Len(arg) > 0

(* encoding() has run on a non-empty input.                                *)
EncodingSet == ModeSet /\ pc \notin {"version", "blockInfo", "encoding"}

(* The format string of the chosen mask, and the colour a bit stands for.  *)
FormatBit(k) == Atoi(formatInformationStrings[qr.Mask + 1][k + 1])

(* C1: for every non-empty input whose length is within the capacity       *)
(* table of its detected mode, NewQR runs to completion and returns a      *)
(* matrix: blockInfo[V], alignmentPatterns[V] (V >= 2) and                 *)
(* versionInformationStrings[V-7] (V >= 7) exist and nothing is indexed    *)
(* out of range.                                                           *)
C1_CompletesWithinCapacity ==
  (Finished /\ Len(arg) <= maxChars(qr.Mode)[versions]) =>
    /\ ret = "qr"
    /\ qr.Version \in 1 .. versions
    /\ qr.Version \in DOMAIN blockInfo
    /\ qr.Version >= 2 => qr.Version \in DOMAIN alignmentPatterns
    /\ qr.Version >= 7 => versionStringInRange(qr.Version)

(* C2: for every non-empty input longer than the last entry of the         *)
(* capacity table of its detected mode, NewQR returns a non-nil error and  *)
(* no QR; it neither panics nor returns a matrix.                          *)
C2_OversizeIsError ==
  (Finished /\ Len(arg) > maxChars(qr.Mode)[versions]) => ret = "error"

(* C3: NewQR("") returns a nil QR and a non-nil error, before mode         *)
(* detection, version selection or any canvas: once the call has started   *)
(* on the empty string it is over, with the error, and no field of a QR    *)
(* was ever set.                                                           *)
C3_EmptyIsErrorBeforeAnything ==
  (Len(arg) = 0 /\ pc # "NewQR") =>
    /\ pc = "done"
    /\ ret = "error"
    /\ qr = zeroQR
    /\ qr.Canvas = <<>>

C3_Witness == Len(arg) = 0 /\ pc = "done" /\ ret = "error"

(* C4: in the returned matrix the first copy of the format string f of     *)
(* the chosen mask lies at (8,c) = f[c] for c in 0..5, (8,7) = f[6],       *)
(* (8,8) = f[7], (7,8) = f[8] and (5,8),(4,8),(3,8),(2,8),(1,8),(0,8) =    *)
(* f[9..14]; the timing cells (8,6) and (6,8) keep the timing pattern.     *)
C4_FirstFormatCopy ==
  (Finished /\ ret = "qr") =>
    LET cv == qr.Canvas
    IN /\ \A c \in 0 .. 5 : cv[8][c].color = FormatBit(c)
       /\ cv[8][7].color = FormatBit(6)
       /\ cv[8][8].color = FormatBit(7)
       /\ cv[7][8].color = FormatBit(8)
       /\ \A k \in 0 .. 5 : cv[5 - k][8].color = FormatBit(9 + k)
       /\ cv[8][6] = Cell(1, FALSE)
       /\ cv[6][8] = Cell(1, FALSE)

(* C5: in the returned matrix the second copy of the format string f lies  *)
(* at (N-1-k, 8) = f[k] for k in 0..6 and (8, N-8+k) = f[7+k] for k in     *)
(* 0..7.                                                                   *)
C5_SecondFormatCopy ==
  (Finished /\ ret = "qr") =>
    LET cv == qr.Canvas
        N == qr.Modules
    IN /\ \A k \in 0 .. 6 : cv[N - 1 - k][8].color = FormatBit(k)
       /\ \A k \in 0 .. 7 : cv[8][N - 8 + k].color = FormatBit(7 + k)

(* C6: mode() sets Mode = Numeric if and only if every character of the    *)
(* non-empty input is a decimal digit.                                     *)
C6_NumericIffAllDigits ==
  ModeSet => (qr.Mode = numeric <=> \A i \in 1 .. Len(arg) : arg[i] \in digitChars)

(* C7: mode() sets Mode = Alphanumeric only when every character is a key  *)
(* of alphaTable, and every input with a character outside that set gets   *)
(* Mode = Byte.                                                            *)
C7_AlphaOnlyFromTable ==
  ModeSet =>
    /\ qr.Mode = alpha => \A i \in 1 .. Len(arg) : arg[i] \in DOMAIN alphaTable
    /\ (\E i \in 1 .. Len(arg) : arg[i] \notin DOMAIN alphaTable) => qr.Mode = byteMode

(* C9: for every non-empty input whose version V has a blockInfo entry,    *)
(* qr.Encoding holds exactly blockInfo[V][0] codewords after encoding().   *)
C9_EncodingFillsCodewords ==
  (EncodingSet /\ qr.Version \in DOMAIN blockInfo) =>
    Len(qr.Encoding) = blockInfo[qr.Version][1]

-----------------------------------------------------------------------------
(* The functions called on their own: arg is the call, a record of the     *)
(* function's name and its arguments, pc is "call" before the call and     *)
(* "return" after it.  version() is a method: it reads Mode and Length of  *)
(* its QR and sets Version; the result of a plain function is in out.      *)

MaxDigits == 3

MaxSampleDigits == 6

sampleDigits == {chZero, chZero + 1, chZero + 7, chNine}

Call(fn, m, length, data) == [fn |-> fn, mode |-> m, length |-> length, data |-> data]

(* Every mode with every length up to one past the last entry of its       *)
(* table.                                                                  *)
versionCalls ==
  UNION {{Call("version", m, length, <<>>) : length \in 1 .. (maxChars(m)[versions] + 1)} :
           m \in {numeric, alpha, byteMode}}

(* Every digit string of up to MaxDigits digits, and the strings of up to  *)
(* MaxSampleDigits digits over 0, 1, 7 and 9.                              *)
encNumericCalls ==
  {Call("encNumeric", 0, 0, d) :
     d \in StringsUpTo(digitChars, MaxDigits) \cup StringsUpTo(sampleDigits, MaxSampleDigits)}

MaxBytes == 3

(* 'a', the two bytes of U+00E4 in UTF-8 (0xC3 0xA4), and 0xFF, which      *)
(* occurs in no UTF-8 text.                                                *)
sampleBytes == {chLowerA, 195, 164, 255}

encBytesCalls == {Call("encBytes", 0, 0, d) : d \in StringsUpTo(sampleBytes, MaxBytes)}

(* terminator on a run of L equal bits, for every L below the 8*B bits of  *)
(* versions 1 and 2.                                                       *)
terminatorCalls ==
  UNION {{[fn |-> "terminator", encoding |-> Repeat(b, L), version |-> v] :
            L \in 0 .. (8 * blockInfoAt(v, 0) - 1), b \in {"0", "1"}} : v \in {1, 2}}

MaxAlpha == 2

MaxSampleAlpha == 4

(* '0', 'A', 'Z', ' ' and ':', the keys with the values 0, 10, 35, 36, 44. *)
sampleAlpha == {chZero, chUpperA, chUpperZ, 32, 58}

(* Every string of up to MaxAlpha keys of alphaTable, and the strings of   *)
(* up to MaxSampleAlpha keys over the sample.                              *)
encAlphaCalls ==
  {Call("encAlpha", 0, 0, d) :
     d \in StringsUpTo(DOMAIN alphaTable, MaxAlpha) \cup StringsUpTo(sampleAlpha, MaxSampleAlpha)}

MaxBlocks == 3

MaxWords == 4

(* The codewords 1, 2, ..., n: every position of the array is told by its  *)
(* value.                                                                  *)
Counting(n) == [k \in 1 .. n |-> k]

BlockCall(fn, array, numErr, b1, b2, w1, w2) ==
  [fn |-> fn, array |-> array, numErr |-> numErr, b1 |-> b1, b2 |-> b2, w1 |-> w1, w2 |-> w2]

(* The block parameters up to MaxBlocks blocks a group and MaxWords         *)
(* codewords a block of group 1, group 2 empty or one codeword longer, and *)
(* the parameters of every entry of blockInfo.                             *)
blockParams ==
  {<<b1, b2, w1, w2>> : b1 \in 1 .. MaxBlocks, b2 \in 0 .. MaxBlocks, w1 \in 1 .. MaxWords,
                        w2 \in 0 .. (MaxWords + 1)}

interleaveDataCalls ==
  {BlockCall("interleaveData", Counting(p[1] * p[3] + p[2] * p[4]), 0, p[1], p[2], p[3], p[4]) :
     p \in {x \in blockParams : x[4] \in {0, x[3] + 1}}
            \cup {<<blockInfo[v][3], blockInfo[v][5], blockInfo[v][4], blockInfo[v][6]>> :
                    v \in DOMAIN blockInfo}}

MaxErr == 3

(* Codewords that are not in order: 7*k*k + 200 modulo 256.                *)
Scattered(n) == [k \in 1 .. n |-> (7 * k * k + 200) % 256]

(* correction on the arrays 1..n and Scattered(n) for the block            *)
(* parameters above with up to MaxErr check codewords a block, and the     *)
(* calls of TestErrorCorrection.                                           *)
correctionCalls ==
  UNION {{BlockCall("correction", a, e, p[1], p[2], p[3], p[4]) :
            a \in {Counting(p[1] * p[3] + p[2] * p[4]), Scattered(p[1] * p[3] + p[2] * p[4])},
            e \in 1 .. MaxErr} :
           p \in {x \in blockParams : x[2] = 0 <=> x[4] = 0}}
    \cup {BlockCall("correction", Counting(9), 17, 1, 0, 9, 0),
          BlockCall("correction", Counting(16), 28, 1, 0, 16, 0),
          BlockCall("correction", Counting(26), 22, 2, 0, 13, 0),
          BlockCall("correction", Counting(36), 16, 4, 0, 9, 0)}

(* Calls of indCount: each mode, each version, and of the lengths within   *)
(* the capacity of the mode at that version the least two, the greatest    *)
(* two and those next to a power of two.                                   *)
MaxCountBits == 13

indCountLengths(m, v) ==
  {0, 1, maxChars(m)[v] - 1, maxChars(m)[v]}
    \cup {n \in UNION {{2 ^ j - 1, 2 ^ j} : j \in 1 .. MaxCountBits} : n <= maxChars(m)[v]}

indCountCalls ==
  UNION {{[fn |-> "indCount", mode |-> m, version |-> v, length |-> n] :
            n \in indCountLengths(m, v)} :
          m \in {numeric, alpha, byteMode}, v \in 1 .. versions}

(* Calls of maskCanvas: square canvases of MaskSide rows whose colours and *)
(* data flags follow MaxShade + 1 and MaxFlagRule + 1 patterns, under each *)
(* of the eight masks.                                                     *)
MaskSide == 6
MaxShade == 2
MaxFlagRule == 3

sampleCanvas(s, d) ==
  [r \in 0 .. (MaskSide - 1) |-> [c \in 0 .. (MaskSide - 1) |->
     Cell(((r * s + c) \div (s + 1)) % 2,
          IF d = 0 THEN TRUE
          ELSE IF d = MaxFlagRule THEN FALSE
          ELSE (r + d * c) % 3 # 0)]]

maskCanvasCalls ==
  {[fn |-> "maskCanvas", canvas |-> sampleCanvas(s, d), i |-> i] :
     s \in 0 .. MaxShade, d \in 0 .. MaxFlagRule, i \in 0 .. 7}

(* Calls of interleaveError: numErr codewords for each of numB1 + numB2    *)
(* blocks, for small block counts, for the block counts of blockInfo and   *)
(* for the three calls of TestInterleaveError.                             *)
interleaveErrorCalls ==
  {BlockCall("interleaveError", Counting(e * (b1 + b2)), e, b1, b2, 0, 0) :
     e \in 1 .. (MaxErr + 1), b1 \in 1 .. MaxBlocks, b2 \in 0 .. MaxBlocks}
    \cup {BlockCall("interleaveError",
                    Counting(blockInfo[v][2] * (blockInfo[v][3] + blockInfo[v][5])),
                    blockInfo[v][2], blockInfo[v][3], blockInfo[v][5], 0, 0) :
            v \in DOMAIN blockInfo}
    \cup {BlockCall("interleaveError", Counting(17), 17, 1, 0, 0, 0),
          BlockCall("interleaveError", Counting(28), 28, 1, 0, 0, 0),
          BlockCall("interleaveError", Counting(44), 22, 2, 0, 0, 0)}

(* Calls of maskCanvas with two masks in a row on the same canvas.         *)
maskCanvasTwiceCalls ==
  {[fn |-> "maskCanvasTwice", canvas |-> sampleCanvas(s, d), i |-> i, j |-> j] :
     s \in 0 .. MaxShade, d \in 0 .. MaxFlagRule, i \in 0 .. 7, j \in 0 .. 7}

FnCalls ==
  versionCalls \cup encNumericCalls \cup encBytesCalls \cup terminatorCalls
    \cup encAlphaCalls \cup interleaveDataCalls \cup correctionCalls
    \cup indCountCalls \cup maskCanvasCalls \cup interleaveErrorCalls
    \cup maskCanvasTwiceCalls

FnInit ==
  /\ arg \in FnCalls
  /\ qr = zeroQR
  /\ loc = zeroLoc
  /\ pc = "call"
  /\ ret = "none"
  /\ out = <<>>

CallVersion ==
  /\ pc = "call" /\ arg.fn = "version"
  /\ qr' = [qr EXCEPT !.Mode = arg.mode, !.Length = arg.length,
                      !.Version = version(arg.mode, arg.length)]
  /\ pc' = "return"
  /\ UNCHANGED <<loc, ret, arg, out>>

CallEncNumeric ==
  /\ pc = "call" /\ arg.fn = "encNumeric"
  /\ out' = encNumeric(arg.data)
  /\ pc' = "return"
  /\ UNCHANGED <<qr, loc, ret, arg>>

CallEncBytes ==
  /\ pc = "call" /\ arg.fn = "encBytes"
  /\ out' = encBytes(arg.data)
  /\ pc' = "return"
  /\ UNCHANGED <<qr, loc, ret, arg>>

CallTerminator ==
  /\ pc = "call" /\ arg.fn = "terminator"
  /\ out' = terminator(arg.encoding, arg.version)
  /\ pc' = "return"
  /\ UNCHANGED <<qr, loc, ret, arg>>

CallEncAlpha ==
  /\ pc = "call" /\ arg.fn = "encAlpha"
  /\ out' = encAlpha(arg.data)
  /\ pc' = "return"
  /\ UNCHANGED <<qr, loc, ret, arg>>

CallInterleaveData ==
  /\ pc = "call" /\ arg.fn = "interleaveData"
  /\ out' = interleaveData(arg.array, arg.b1, arg.b2, arg.w1, arg.w2)
  /\ pc' = "return"
  /\ UNCHANGED <<qr, loc, ret, arg>>

CallCorrection ==
  /\ pc = "call" /\ arg.fn = "correction"
  /\ out' = correction(arg.array, arg.numErr, arg.b1, arg.b2, arg.w1, arg.w2)
  /\ pc' = "return"
  /\ UNCHANGED <<qr, loc, ret, arg>>

CallIndCount ==
  /\ pc = "call" /\ arg.fn = "indCount"
  /\ out' = indCount(arg.length, arg.mode, arg.version)
  /\ pc' = "return"
  /\ UNCHANGED <<qr, loc, ret, arg>>

CallMaskCanvas ==
  /\ pc = "call" /\ arg.fn = "maskCanvas"
  /\ out' = maskCanvas(arg.canvas, arg.i)
  /\ pc' = "return"
  /\ UNCHANGED <<qr, loc, ret, arg>>

CallInterleaveError ==
  /\ pc = "call" /\ arg.fn = "interleaveError"
  /\ out' = interleaveError(arg.array, arg.numErr, arg.b1, arg.b2)
  /\ pc' = "return"
  /\ UNCHANGED <<qr, loc, ret, arg>>

CallMaskCanvasTwice ==
  /\ pc = "call" /\ arg.fn = "maskCanvasTwice"
  /\ out' = maskCanvasTwice(arg.canvas, arg.i, arg.j)
  /\ pc' = "return"
  /\ UNCHANGED <<qr, loc, ret, arg>>

FnNext ==
  \/ CallMaskCanvasTwice
  \/ CallInterleaveError
  \/ CallMaskCanvas
  \/ CallIndCount
  \/ CallCorrection
  \/ CallInterleaveData
  \/ CallEncAlpha
  \/ CallTerminator
  \/ CallVersion
  \/ CallEncNumeric
  \/ CallEncBytes

SpecFn == FnInit /\ [][FnNext]_vars

Returned(fn) == pc = "return" /\ arg.fn = fn

(* C8: for each mode and every length L from 1 to the last entry of the    *)
(* mode's table, version() sets Version to the smallest V in 1..40 with    *)
(* table[V-1] >= L, the table taken as it is written (maxCharsBytes with   *)
(* 779 at index 21).                                                       *)
C8_VersionIsSmallest ==
  (Returned("version") /\ arg.length <= maxChars(arg.mode)[versions]) =>
    LET table == maxChars(arg.mode)
        V == qr.Version
    IN /\ V \in 1 .. versions
       /\ table[V] >= arg.length
       /\ \A v \in 1 .. (V - 1) : table[v] < arg.length

(* A byte length above the entries 929 and 779 at indices 20 and 21: the   *)
(* version is 23.                                                          *)
C8_Witness ==
  /\ Returned("version")
  /\ arg.mode = byteMode /\ arg.length = 930
  /\ maxCharsBytes[22] = 779
  /\ qr.Version = 23

(* The groups encNumeric cuts a digit string into: the k-th group starts   *)
(* at digit 3(k-1)+1 and has three digits, except that the last may have   *)
(* two or one.  GroupValue is its decimal value, GroupWidth the width the  *)
(* standard gives it.                                                      *)
GroupCount(d) == (Len(d) + 2) \div 3

GroupSize(d, k) == IF 3 * k <= Len(d) THEN 3 ELSE Len(d) - 3 * (k - 1)

GroupValue(d, k) ==
  LET digit(j) == d[3 * (k - 1) + j] - chZero
      n == GroupSize(d, k)
  IN IF n = 3 THEN 100 * digit(1) + 10 * digit(2) + digit(3)
     ELSE IF n = 2 THEN 10 * digit(1) + digit(2)
     ELSE digit(1)

GroupWidth(d, k) ==
  IF GroupSize(d, k) = 3 THEN 10 ELSE IF GroupSize(d, k) = 2 THEN 7 ELSE 4

(* The number of binary digits of v, one for 0.                            *)
BitLength(v) == CHOOSE n \in 1 .. 10 : v < 2 ^ n /\ (n > 1 => v >= 2 ^ (n - 1))

(* bits[from+1 .. from+w] is v written in w binary digits.                 *)
HoldsValue(bits, from, w, v) ==
  /\ from + w <= Len(bits)
  /\ \A i \in 1 .. w :
       bits[from + i] = (IF (v \div 2 ^ (w - i)) % 2 = 1 THEN "1" ELSE "0")

(* C10 as stated: every full group of three digits is encoded in exactly   *)
(* 10 bits, a trailing group of two in exactly 7 and a trailing single     *)
(* digit in exactly 4, zero-padded on the left, so that the length is      *)
(* 10*floor(|d|/3) + (0, 4 or 7).                                          *)
C10_FixedGroupWidths ==
  (Returned("encNumeric") /\ Len(arg.data) > 0) =>
    LET d == arg.data
    IN /\ Len(out) = 10 * (Len(d) \div 3)
                       + (IF Len(d) % 3 = 0 THEN 0 ELSE IF Len(d) % 3 = 1 THEN 4 ELSE 7)
       /\ \A k \in 1 .. GroupCount(d) :
            HoldsValue(out, 10 * (k - 1), GroupWidth(d, k), GroupValue(d, k))

(* C10 as amended: every group is encoded as the binary digits of its      *)
(* decimal value with no padding, which are at most 10, 7 or 4 bits for a  *)
(* group of three, two or one digits; the length is the sum of the bit     *)
(* lengths of the groups' values and so at most 10*floor(|d|/3) + (0, 4    *)
(* or 7).                                                                  *)
C10_UnpaddedGroupWidths ==
  (Returned("encNumeric") /\ Len(arg.data) > 0) =>
    LET d == arg.data
        G == GroupCount(d)
        offset[k \in 0 .. G] ==
          IF k = 0 THEN 0 ELSE offset[k - 1] + BitLength(GroupValue(d, k))
    IN /\ Len(out) = offset[G]
       /\ Len(out) <= 10 * (Len(d) \div 3)
                        + (IF Len(d) % 3 = 0 THEN 0 ELSE IF Len(d) % 3 = 1 THEN 4 ELSE 7)
       /\ \A k \in 1 .. G :
            /\ BitLength(GroupValue(d, k)) <= GroupWidth(d, k)
            /\ HoldsValue(out, offset[k - 1], BitLength(GroupValue(d, k)), GroupValue(d, k))

(* "100707": the groups 100 and 707 take 7 and 10 bits, 17 where fixed     *)
(* widths would give 20.                                                   *)
C10_Witness ==
  /\ Returned("encNumeric")
  /\ arg.data = <<chZero + 1, chZero, chZero, chZero + 7, chZero, chZero + 7>>
  /\ out = <<"1", "1", "0", "0", "1", "0", "0">>
             \o <<"1", "0", "1", "1", "0", "0", "0", "0", "1", "1">>

(* C11: for every string s of arbitrary bytes, encBytes(s) has exactly     *)
(* 8*len(s) bits, len(s) being the byte length NewQR writes into the       *)
(* count indicator, and the k-th group of 8 bits is the value of the k-th  *)
(* byte of s.                                                              *)
C11_EightBitsPerByte ==
  Returned("encBytes") =>
    /\ Len(out) = 8 * Len(arg.data)
    /\ \A k \in 1 .. Len(arg.data) : HoldsValue(out, 8 * (k - 1), 8, arg.data[k])

(* The codewords are the bits, eight by eight.                             *)
CodewordsOf(codewords, bits) ==
  /\ Len(bits) = 8 * Len(codewords)
  /\ \A j \in 1 .. Len(codewords) : HoldsValue(bits, 8 * (j - 1), 8, codewords[j])

(* C12: for a bit string of length L < 8*B, terminator inserts             *)
(* t + ((8 - ((L + t) mod 8)) mod 8) zero bits, t = min(4, 8*B - L),       *)
(* between the payload and the first pad codeword: the result is the       *)
(* payload, that many zeros, and pad codewords up to B codewords.          *)
C12_TerminatorZeroBits ==
  Returned("terminator") =>
    LET L == Len(arg.encoding)
        B == blockInfo[arg.version][1]
        t == IF 8 * B - L < 4 THEN 8 * B - L ELSE 4
        zeros == t + ((8 - ((L + t) % 8)) % 8)
        numPads == B - ((L + zeros) \div 8)
        pads == [k \in 1 .. 8 * numPads |-> terminatorPads[(((k - 1) \div 8) % 2) + 1][((k - 1) % 8) + 1]]
    IN CodewordsOf(out, arg.encoding \o [k \in 1 .. zeros |-> "0"] \o pads)

(* C13: for every non-empty string d of keys of alphaTable, encAlpha(d)    *)
(* is, pair after pair, 45*alphaTable[c1] + alphaTable[c2] in exactly 11   *)
(* bits, then, when |d| is odd, alphaTable of the last character in        *)
(* exactly 6 bits; its length is 11*floor(|d|/2) + 6*(|d| mod 2).          *)
C13_AlphaPairWidths ==
  (Returned("encAlpha") /\ Len(arg.data) > 0) =>
    LET d == arg.data
        n == Len(d)
    IN /\ Len(out) = 11 * (n \div 2) + 6 * (n % 2)
       /\ \A k \in 1 .. (n \div 2) :
            HoldsValue(out, 11 * (k - 1), 11, 45 * alphaTable[d[2 * k - 1]] + alphaTable[d[2 * k]])
       /\ n % 2 = 1 => HoldsValue(out, 11 * (n \div 2), 6, alphaTable[d[n]])

(* "AZ0": the pair 45*10 + 35 = 485 in 11 bits and then '0' in 6 bits.     *)
C13_Witness ==
  /\ Returned("encAlpha")
  /\ arg.data = <<chUpperA, chUpperZ, chZero>>
  /\ out = <<"0", "0", "1", "1", "1", "1", "0", "0", "1", "0", "1">>
             \o <<"0", "0", "0", "0", "0", "0">>

(* C14: with len(array) = B1*W1 + B2*W2 and W2 in {0, W1+1},               *)
(* interleaveData emits column after column, i = 0..max(W1,W2)-1:          *)
(* codeword i of each of the B1 blocks of group 1 in block order when      *)
(* i < W1, then codeword i of each of the B2 blocks of group 2 when        *)
(* i < W2.  Column i starts at output index B1*min(i,W1) + B2*min(i,W2).   *)
C14_InterleaveDataOrder ==
  (Returned("interleaveData") /\ arg.w2 \in {0, arg.w1 + 1}) =>
    LET B1 == arg.b1
        B2 == arg.b2
        W1 == arg.w1
        W2 == arg.w2
        least(a, b) == IF a <= b THEN a ELSE b
        start(i) == B1 * least(i, W1) + B2 * least(i, W2)
    IN /\ Len(out) = Len(arg.array)
       /\ \A i \in 0 .. (W1 - 1) : \A b \in 0 .. (B1 - 1) :
            out[start(i) + b + 1] = arg.array[b * W1 + i + 1]
       /\ \A i \in 0 .. (W2 - 1) : \A b \in 0 .. (B2 - 1) :
            out[start(i) + (IF i < W1 THEN B1 ELSE 0) + b + 1]
              = arg.array[B1 * W1 + b * W2 + i + 1]

(* Two blocks of 3 and two of 4 codewords: the last column holds the       *)
(* fourth codewords of the blocks of group 2 only.                         *)
C14_Witness ==
  /\ Returned("interleaveData")
  /\ arg.b1 = 2 /\ arg.b2 = 2 /\ arg.w1 = 3 /\ arg.w2 = 4
  /\ out = <<1, 4, 7, 11, 2, 5, 8, 12, 3, 6, 9, 13, 10, 14>>

(* The product of a and b in GF(2^8), by shifts: the sum over the bits k   *)
(* of b of a * x^k, each reduced by the primitive polynomial.              *)
FieldProduct(a, b) ==
  LET d1 == gfDouble(a)
      d2 == gfDouble(d1)
      d3 == gfDouble(d2)
      d4 == gfDouble(d3)
      d5 == gfDouble(d4)
      d6 == gfDouble(d5)
      d7 == gfDouble(d6)
      term(k, d) == IF (b \div 2 ^ k) % 2 = 1 THEN d ELSE 0
  IN Xor(Xor(Xor(term(0, a), term(1, d1)), Xor(term(2, d2), term(3, d3))),
         Xor(Xor(term(4, d4), term(5, d5)), Xor(term(6, d6), term(7, d7))))

RECURSIVE FieldPower(_)
(* 2^i in GF(2^8).                                                         *)
FieldPower(i) == IF i = 0 THEN 1 ELSE gfDouble(FieldPower(i - 1))

(* The value at x of the polynomial with the coefficients c, highest       *)
(* first.                                                                  *)
PolyEval(c, x) ==
  LET step(st, k) == [c |-> st.c, x |-> st.x, v |-> Xor(FieldProduct(st.v, st.x), st.c[k])]
  IN ForRange(step, 1, Len(c), [c |-> c \o <<>>, x |-> x, v |-> 0]).v

(* C15: correction returns E*(B1+B2) codewords; the j-th group of E is,    *)
(* most significant first, the remainder of M_j(x)*x^E modulo              *)
(* G(x) = product of (x - 2^i), i in 0..E-1, M_j being the j-th block      *)
(* (B1 blocks of W1 codewords, then B2 of W2): the block followed by its   *)
(* group is a polynomial that vanishes at every 2^i.  The codewords 1..9   *)
(* with E = 17 give 48, 91, 177, ...                                       *)
C15_CorrectionIsRemainder ==
  Returned("correction") =>
    LET E == arg.numErr
        B1 == arg.b1
        blocks == arg.b1 + arg.b2
        start(j) == IF j < B1 THEN j * arg.w1 ELSE B1 * arg.w1 + (j - B1) * arg.w2
        size(j) == IF j < B1 THEN arg.w1 ELSE arg.w2
        block(j) == Slice(arg.array, start(j), start(j) + size(j))
        group(j) == Slice(out, j * E, (j + 1) * E)
    IN /\ Len(out) = E * blocks
       /\ \A k \in 1 .. Len(out) : out[k] \in 0 .. 255
       /\ \A j \in 0 .. (blocks - 1) : \A i \in 0 .. (E - 1) :
            PolyEval(block(j) \o group(j), FieldPower(i)) = 0
       /\ (arg.array = Counting(9) /\ E = 17 /\ blocks = 1) =>
            out = <<48, 91, 177, 195, 164, 76, 88, 163, 118, 109, 85, 153, 22, 5, 66, 122, 247>>

(* Two blocks of 13 codewords with 22 check codewords each, the third      *)
(* call of TestErrorCorrection.                                            *)
C15_Witness ==
  /\ Returned("correction")
  /\ arg.array = Counting(26) /\ arg.numErr = 22 /\ arg.b1 = 2 /\ arg.w1 = 13
  /\ out = <<108, 198, 169, 133, 107, 122, 23, 61, 170, 4, 240, 137, 36, 218, 167,
             73, 75, 243, 140, 7, 102, 46, 61, 246, 34, 63, 18, 3, 37, 139, 140,
             40, 21, 168, 44, 195, 134, 38, 181, 167, 97, 104, 218, 228>>

(* C16: for every version V with a blockInfo entry, qr.Interleaved after  *)
(* interleave() is the bits of the interleaved data codewords, then the    *)
(* bits of the interleaved check codewords, then R = blockInfo[V][6] zero  *)
(* bits; its length is 8*(B1*W1 + B2*W2 + E*(B1+B2)) + R, and              *)
(* blockInfo[V][0] = B1*W1 + B2*W2.                                        *)
C16_InterleavedLayout ==
  (pc = "newCanvas" /\ qr.Version \in DOMAIN blockInfo) =>
    LET info == blockInfo[qr.Version]
        E == info[2]
        B1 == info[3]
        W1 == info[4]
        B2 == info[5]
        W2 == info[6]
        R == info[7]
        words == B1 * W1 + B2 * W2 + E * (B1 + B2)
        data == interleaveData(qr.Encoding, B1, B2, W1, W2)
        check == interleaveError(correction(qr.Encoding, E, B1, B2, W1, W2), E, B1, B2)
    IN /\ info[1] = B1 * W1 + B2 * W2
       /\ Len(qr.Interleaved) = 8 * words + R
       /\ CodewordsOf(data \o check, SubSeq(qr.Interleaved, 1, 8 * words))
       /\ \A k \in (8 * words + 1) .. (8 * words + R) : qr.Interleaved[k] = "0"

(* C17: for every input whose version V is in 1..12 the returned matrix    *)
(* shows a 7x7 finder (dark border, light ring, dark 3x3 core) at the      *)
(* origins (0,0), (0,N-7) and (N-7,0), each with its light separator row   *)
(* and column; the timing pattern on row 6 and column 6 for the indices    *)
(* 6..N-9, dark exactly at the even ones; and a dark module at (4V+9, 8).  *)
C17_FunctionPatternsSurvive ==
  (Finished /\ ret = "qr" /\ qr.Version \in 1 .. 12) =>
    LET cv == qr.Canvas
        N == 4 * (qr.Version - 1) + 21
        dist(a) == IF a < 3 THEN 3 - a ELSE a - 3
        ring(dr, dc) == IF dist(dr) >= dist(dc) THEN dist(dr) ELSE dist(dc)
        finder(r0, c0) ==
          \A dr \in 0 .. 6 : \A dc \in 0 .. 6 :
            cv[r0 + dr][c0 + dc].color = (IF ring(dr, dc) = 2 THEN 0 ELSE 1)
    IN /\ finder(0, 0) /\ finder(0, N - 7) /\ finder(N - 7, 0)
       /\ \A k \in 0 .. 7 :
            /\ cv[7][k].color = 0 /\ cv[k][7].color = 0
            /\ cv[7][N - 8 + k].color = 0 /\ cv[k][N - 8].color = 0
            /\ cv[N - 8][k].color = 0 /\ cv[N - 8 + k][7].color = 0
       /\ \A k \in 6 .. (N - 9) :
            /\ cv[6][k].color = (IF k % 2 = 0 THEN 1 ELSE 0)
            /\ cv[k][6].color = (IF k % 2 = 0 THEN 1 ELSE 0)
       /\ cv[4 * qr.Version + 9][8].color = 1

(* A matrix of version 7, which has alignment patterns on the timing       *)
(* lines and the version information next to the finders.                  *)
C17_Witness ==
  /\ Finished /\ ret = "qr" /\ qr.Version = 7
  /\ Size(qr.Canvas) = 45
  /\ qr.Canvas[37][8].color = 1
  /\ qr.Canvas[6][22].color = 1 /\ qr.Canvas[6][23].color = 0

(* C18: after dataMasking, qr.Mask is the least index i in 0..7 whose      *)
(* penalty S(i) = pen1 + pen2 + pen3 + pen4 of the canvas masked with      *)
(* masks[i] is the minimum of S over the eight masks, and qr.Canvas is     *)
(* that masked canvas (the step that leaves dataMasking); the format       *)
(* string written afterwards is formatInformationStrings[qr.Mask], whose   *)
(* first nine bits, which tell the eight strings apart, are in the         *)
(* returned matrix.                                                        *)
C18_LeastPenaltyMask ==
  /\ [][(pc = "dataMasking" /\ pc' = "drawFormatInformationString") =>
          LET S == [i \in 0 .. 7 |-> penalty(maskCanvas(qr.Canvas, i))]
              m == qr'.Mask
          IN /\ m \in 0 .. 7
             /\ \A i \in 0 .. 7 : S[m] <= S[i]
             /\ \A i \in 0 .. (m - 1) : S[i] > S[m]
             /\ qr'.Canvas = maskCanvas(qr.Canvas, m)]_vars
  /\ []((Finished /\ ret = "qr") =>
          /\ \A c \in 0 .. 5 : qr.Canvas[8][c].color = FormatBit(c)
          /\ qr.Canvas[8][7].color = FormatBit(6)
          /\ qr.Canvas[8][8].color = FormatBit(7)
          /\ qr.Canvas[7][8].color = FormatBit(8))

(* dataMasking has chosen a mask that is neither the first nor the last.   *)
C18_Witness ==
  /\ pc = "drawFormatInformationString"
  /\ qr.Mask = 3
  /\ qr.Canvas = loc.winner
  /\ loc.min < maxInt

(* The positions of NewQR at which qr.Canvas has been allocated.           *)
CanvasStages ==
  {"placeFinderPatterns", "placeSeparator", "placeAlignmentPatterns",
   "drawTimingPattern", "drawDarkModule", "reserveFormatInformationArea",
   "reserveVersionInformationData", "drawDataBits", "dataMasking",
   "drawFormatInformationString", "drawVersionInformationString"}

(* C19: whenever NewQR returns a QR, qr.Canvas is a square matrix of N     *)
(* rows and N columns with N = qr.Modules = 4 * (qr.Version - 1) + 21, and *)
(* it has that size from newCanvas on, through pattern placement, data     *)
(* placement, masking and the writing of format and version information.   *)
C19_CanvasIsSquare ==
  (pc \in CanvasStages \/ (Finished /\ ret = "qr")) =>
    LET N == 4 * (qr.Version - 1) + 21
    IN /\ qr.Modules = N
       /\ DOMAIN qr.Canvas = 0 .. (N - 1)
       /\ \A r \in 0 .. (N - 1) : DOMAIN qr.Canvas[r] = 0 .. (N - 1)
       /\ pc = "dataMasking" =>
            (loc.k > 0 => /\ DOMAIN loc.winner = 0 .. (N - 1)
                          /\ \A r \in 0 .. (N - 1) :
                               DOMAIN loc.winner[r] = 0 .. (N - 1))

(* A version 12 symbol has been returned: 65 rows of 65 cells.             *)
C19_Witness ==
  /\ Finished /\ ret = "qr"
  /\ qr.Version = 12 /\ qr.Modules = 65
  /\ Size(qr.Canvas) = 65
  /\ \A r \in 0 .. 64 : Size(qr.Canvas[r]) = 65

-----------------------------------------------------------------------------
(* NewQR called again and again by one caller. The package-level tables    *)
(* are only read by the code, so they stay the definitions above; what a   *)
(* call leaves in qr and loc is left in place when the next call starts,   *)
(* and out is the log of the calls that have returned.                     *)

MaxCalls == 3

CallInputs ==
  {<<>>, <<chZero + 1>>, Repeat(chZero + 7, maxCharsNumeric[7])}

(* What the caller sees of a call: its outcome and, for a QR, the mode,    *)
(* the version, the mask and the colour of every cell.                     *)
Outcome ==
  IF ret = "qr"
  THEN [ret |-> ret, Mode |-> qr.Mode, Version |-> qr.Version, Mask |-> qr.Mask,
        colors |-> [r \in DOMAIN qr.Canvas |->
                      [c \in DOMAIN qr.Canvas[r] |-> qr.Canvas[r][c].color]]]
  ELSE [ret |-> ret]

CallsInit ==
  /\ arg \in CallInputs
  /\ qr = zeroQR
  /\ loc = zeroLoc
  /\ pc = "NewQR"
  /\ ret = "none"
  /\ out = <<>>

(* The call has returned; the caller keeps its outcome and calls again.    *)
NextCall ==
  /\ pc = "done"
  /\ Len(out) + 1 < MaxCalls
  /\ out' = Append(out, [data |-> arg, outcome |-> Outcome])
  /\ arg' \in CallInputs
  /\ pc' = "NewQR"
  /\ ret' = "none"
  /\ UNCHANGED <<qr, loc>>

CallsNext ==
  \/ Next
  \/ NextCall

SpecCalls == CallsInit /\ [][CallsNext]_vars

(* C20: NewQR is deterministic: a call whose input equals that of an       *)
(* earlier call, whatever calls were made before or in between, has the    *)
(* same outcome: the same mode, version and mask and the same colour in    *)
(* every cell of the matrix.                                               *)
C20_EqualInputsEqualOutcomes ==
  pc = "done" =>
    \A k \in 1 .. Len(out) : out[k].data = arg => out[k].outcome = Outcome

(* A version 7 symbol returned for the second time, with a call on another *)
(* input in between.                                                       *)
C20_Witness ==
  /\ pc = "done" /\ ret = "qr"
  /\ qr.Version = 7
  /\ Len(out) = 2
  /\ out[1].data = arg
  /\ out[2].data = <<chZero + 1>>
  /\ out[2].outcome.ret = "qr"
  /\ out[1].outcome.Version = 7

-----------------------------------------------------------------------------
(* The width of the count indicator the claim gives for mode m, version v. *)
CountWidth(m, v) ==
  IF v <= 9 THEN (IF m = numeric THEN 10 ELSE IF m = alpha THEN 9 ELSE 8)
  ELSE IF v <= 26 THEN (IF m = numeric THEN 12 ELSE IF m = alpha THEN 11 ELSE 16)
  ELSE (IF m = numeric THEN 14 ELSE IF m = alpha THEN 13 ELSE 16)

DataCellCount(canvas) ==
  Cardinality({rc \in (DOMAIN canvas) \X (DOMAIN canvas) : canvas[rc[1]][rc[2]].data})

(* C22: for every version V in 1..12 the number of cells with data = true  *)
(* when drawDataBits starts equals len(qr.Interleaved), which is           *)
(* 8 * (blockInfo[V][0] + E * (B1 + B2)) + R; drawDataBits never reads     *)
(* past the end of the stream, and when it has written every data cell it  *)
(* has read every index of the stream.                                     *)
C22_DataCellsMatchStream ==
  (qr.Version \in 1 .. 12 /\ pc \in {"drawDataBits", "dataMasking", "done"}) =>
    LET info == blockInfo[qr.Version]
    IN /\ ret # "panic"
       /\ (pc = "drawDataBits" /\ loc.c = qr.Modules - 1) =>
            /\ loc.i = 0
            /\ DataCellCount(qr.Canvas) = Len(qr.Interleaved)
            /\ Len(qr.Interleaved) = 8 * (info[1] + info[2] * (info[3] + info[5])) + info[7]
       /\ (pc = "dataMasking" /\ loc.k = 0) => loc.i = Len(qr.Interleaved)

(* The n-th cell (n from 1) of the visiting order of the claim on a canvas *)
(* of N columns: pair p (from 0) has its right column at N-1-2p while that *)
(* is right of column 6 and one further left afterwards, is walked upwards *)
(* if p is even, and in each row the right column comes first.             *)
VisitedCell(N, n) ==
  LET p == (n - 1) \div (2 * N)
      q == (n - 1) % (2 * N)
      right == IF N - 1 - 2 * p > 6 THEN N - 1 - 2 * p ELSE N - 2 - 2 * p
      row == IF p % 2 = 0 THEN N - 1 - (q \div 2) ELSE q \div 2
  IN <<row, right - (q % 2)>>

(* C23: drawDataBits writes the k-th bit of the stream to the k-th cell    *)
(* with data = true in the visiting order: column pairs (c, c-1) for       *)
(* c = N-1, N-3, ..., 8 and then 5, 3, 1, the first pair walked from row   *)
(* N-1 up to row 0 and the direction flipped for each following pair, the  *)
(* right column before the left in each row; cells with data = false keep  *)
(* their colour, and no data flag changes.                                 *)
C23_ZigZagPlacement ==
  /\ []((pc = "dataMasking" /\ loc.k = 0) =>
          LET N == qr.Modules
              order == [n \in 1 .. ((N - 1) * N) |-> VisitedCell(N, n)]
              cells == SelectSeq(order, LAMBDA rc : qr.Canvas[rc[1]][rc[2]].data)
          IN /\ Len(cells) <= Len(qr.Interleaved)
             /\ \A k \in 1 .. Len(cells) :
                  qr.Canvas[cells[k][1]][cells[k][2]].color = Atoi(qr.Interleaved[k]))
  /\ [][pc = "drawDataBits" =>
          \A r \in DOMAIN qr.Canvas : \A c \in DOMAIN qr.Canvas :
            /\ qr'.Canvas[r][c].data = qr.Canvas[r][c].data
            /\ ~qr.Canvas[r][c].data => qr'.Canvas[r][c].color = qr.Canvas[r][c].color]_vars

(* drawDataBits has finished on a version 7 canvas: the first two bits are *)
(* in the bottom right corner and the last bit is in column 0.             *)
C23_Witness ==
  /\ pc = "dataMasking" /\ loc.k = 0
  /\ qr.Version = 7
  /\ loc.i = Len(qr.Interleaved)
  /\ qr.Canvas[44][44].color = Atoi(qr.Interleaved[1])
  /\ qr.Canvas[44][43].color = Atoi(qr.Interleaved[2])
  /\ \E r \in 0 .. 44 : /\ qr.Canvas[r][0].data
                        /\ qr.Canvas[r][0].color = Atoi(qr.Interleaved[loc.i])

(* Predicate i of the mask table at (r, c).                                *)
MaskPredicate(i, r, c) ==
  CASE i = 0 -> (r + c) % 2 = 0
    [] i = 1 -> r % 2 = 0
    [] i = 2 -> c % 3 = 0
    [] i = 3 -> (r + c) % 3 = 0
    [] i = 4 -> ((r \div 2) + (c \div 3)) % 2 = 0
    [] i = 5 -> ((r * c) % 2) + ((r * c) % 3) = 0
    [] i = 6 -> (((r * c) % 2) + ((r * c) % 3)) % 2 = 0
    [] i = 7 -> (((r + c) % 2) + ((r * c) % 3)) % 2 = 0

(* C24: for each mask index i in 0..7 and every cell (r, c), the canvas    *)
(* maskCanvas(canvas, masks[i]) returns has at (r, c) the original colour  *)
(* inverted if and only if the cell has data = true and predicate i of the *)
(* mask table holds at (r, c); every cell with data = false keeps its      *)
(* colour, and no data flag changes.                                       *)
C24_MaskInvertsDataCells ==
  Returned("maskCanvas") =>
    /\ DOMAIN out = DOMAIN arg.canvas
    /\ \A r \in DOMAIN arg.canvas :
         /\ DOMAIN out[r] = DOMAIN arg.canvas[r]
         /\ \A c \in DOMAIN arg.canvas[r] :
              LET old == arg.canvas[r][c]
              IN /\ out[r][c].data = old.data
                 /\ out[r][c].color =
                      (IF old.data /\ MaskPredicate(arg.i, r, c)
                       THEN 1 - old.color ELSE old.color)

(* Mask 4 on a canvas with cells of both kinds: the data cell (1, 3) is    *)
(* kept, the data cell (1, 1) is inverted and the reserved cell (0, 0),    *)
(* where the predicate holds, is kept.                                     *)
C24_Witness ==
  /\ Returned("maskCanvas")
  /\ arg.i = 4
  /\ arg.canvas = sampleCanvas(1, 1)
  /\ arg.canvas[1][3].data /\ out[1][3].color = arg.canvas[1][3].color
  /\ arg.canvas[1][1].data /\ out[1][1].color = 1 - arg.canvas[1][1].color
  /\ ~arg.canvas[0][0].data /\ out[0][0].color = arg.canvas[0][0].color

(* C25: for every version V in 2..12, placeAlignmentPatterns draws one 5x5 *)
(* pattern (dark outer ring, light inner ring, dark centre) centred at     *)
(* each coordinate pair of alignmentPatterns[V], and no cell of a drawn    *)
(* pattern lies in one of the 8x8 corner regions of the finder patterns    *)
(* and their separators: after the call the cells with data = false are    *)
(* the 192 cells of the corners and 25 cells for each pair.                *)
C25_AlignmentPatterns ==
  (pc = "drawTimingPattern" /\ qr.Version \in 2 .. 12) =>
    LET N == qr.Modules
        patterns == alignmentPatterns[qr.Version]
        pairs == Len(patterns) \div 2
        dist(d) == IF d < 0 THEN 0 - d ELSE d
        ring(dr, dc) == IF dist(dr) >= dist(dc) THEN dist(dr) ELSE dist(dc)
        corner(r, c) == \/ r <= 7 /\ c <= 7
                        \/ r <= 7 /\ c >= N - 8
                        \/ r >= N - 8 /\ c <= 7
    IN /\ Len(patterns) = 2 * pairs
       /\ \A k \in 0 .. (pairs - 1) : \A dr \in -2 .. 2 : \A dc \in -2 .. 2 :
            LET r == patterns[2 * k + 1] + dr
                c == patterns[2 * k + 2] + dc
            IN /\ r \in 0 .. (N - 1) /\ c \in 0 .. (N - 1)
               /\ ~corner(r, c)
               /\ qr.Canvas[r][c] = Cell(IF ring(dr, dc) = 1 THEN 0 ELSE 1, FALSE)
       /\ DataCellCount(qr.Canvas) = N * N - 192 - 25 * pairs

(* The six patterns of version 7 have been drawn: centres, a light ring    *)
(* cell and a dark corner of the pattern at (6, 22).                       *)
C25_Witness ==
  /\ pc = "drawTimingPattern" /\ qr.Version = 7
  /\ qr.Canvas[6][22] = Cell(1, FALSE)
  /\ qr.Canvas[5][22] = Cell(0, FALSE)
  /\ qr.Canvas[4][20] = Cell(1, FALSE)
  /\ qr.Canvas[38][38] = Cell(1, FALSE)
  /\ qr.Canvas[22][6] = Cell(1, FALSE)
  /\ qr.Canvas[9][22].data

(* The cell (r, c) of a canvas of N columns is one of the 36 cells of the  *)
(* two version blocks.                                                     *)
InVersionBlock(N, r, c) ==
  \/ r \in (N - 11) .. (N - 9) /\ c \in 0 .. 5
  \/ c \in (N - 11) .. (N - 9) /\ r \in 0 .. 5

(* C26: for every version V in 7..12 with version string                   *)
(* v = versionInformationStrings[V-7], the returned matrix holds           *)
(* v[3*(5-i)+j] both at (N-9-j, i) and at (i, N-9-j) for i in 0..5 and j   *)
(* in 0..2; reserveVersionInformationData clears the data flag of exactly  *)
(* these 36 cells and drawVersionInformationString writes no other cell;   *)
(* for V < 7 neither function runs and the 36 cells stay data cells.       *)
C26_VersionInformation ==
  /\ []((Finished /\ ret = "qr") =>
          LET N == qr.Modules
          IN IF qr.Version >= 7
             THEN LET v == versionInformationStrings[qr.Version - 7 + 1]
                  IN \A i \in 0 .. 5 : \A j \in 0 .. 2 :
                       /\ qr.Canvas[N - 9 - j][i] = Cell(Atoi(v[3 * (5 - i) + j + 1]), FALSE)
                       /\ qr.Canvas[i][N - 9 - j] = Cell(Atoi(v[3 * (5 - i) + j + 1]), FALSE)
             ELSE \A r \in 0 .. (N - 1) : \A c \in 0 .. (N - 1) :
                    InVersionBlock(N, r, c) => qr.Canvas[r][c].data)
  /\ [](pc \in {"reserveVersionInformationData", "drawVersionInformationString"} =>
          qr.Version >= 7)
  /\ [][pc = "reserveVersionInformationData" =>
          \A r \in DOMAIN qr.Canvas : \A c \in DOMAIN qr.Canvas :
            IF InVersionBlock(qr.Modules, r, c)
            THEN qr.Canvas[r][c].data /\ ~qr'.Canvas[r][c].data
            ELSE qr'.Canvas[r][c] = qr.Canvas[r][c]]_vars
  /\ [][pc = "drawVersionInformationString" =>
          \A r \in DOMAIN qr.Canvas : \A c \in DOMAIN qr.Canvas :
            /\ qr'.Canvas[r][c].data = qr.Canvas[r][c].data
            /\ ~InVersionBlock(qr.Modules, r, c) => qr'.Canvas[r][c] = qr.Canvas[r][c]]_vars

(* The version 7 string 000111110010010100 in the returned matrix: its     *)
(* first three bits in column 5 and its last three in column 0 of the      *)
(* lower block.                                                            *)
C26_Witness ==
  /\ Finished /\ ret = "qr" /\ qr.Version = 7
  /\ qr.Canvas[36][5].color = 0 /\ qr.Canvas[35][5].color = 0 /\ qr.Canvas[34][5].color = 0
  /\ qr.Canvas[36][4].color = 1 /\ qr.Canvas[35][4].color = 1 /\ qr.Canvas[34][4].color = 1
  /\ qr.Canvas[36][0].color = 1 /\ qr.Canvas[35][0].color = 0 /\ qr.Canvas[34][0].color = 0
  /\ qr.Canvas[0][35].color = 0 /\ qr.Canvas[4][36].color = 1

(* C27: for an array of E * (B1 + B2) error codewords laid out block after *)
(* block, interleaveError returns the transpose:                           *)
(* output[i * (B1 + B2) + j] = input[j * E + i] for every i in 0..E-1 and  *)
(* j in 0..B1+B2-1; with a single block the output equals the input.       *)
C27_InterleaveErrorTransposes ==
  Returned("interleaveError") =>
    LET E == arg.numErr
        nb == arg.b1 + arg.b2
    IN /\ Len(out) = E * nb
       /\ \A i \in 0 .. (E - 1) : \A j \in 0 .. (nb - 1) :
            out[i * nb + j + 1] = arg.array[j * E + i + 1]
       /\ nb = 1 => out = arg.array

(* The third call of TestInterleaveError: 44 codewords of two blocks.      *)
C27_Witness ==
  /\ Returned("interleaveError")
  /\ arg.numErr = 22 /\ arg.b1 = 2 /\ arg.b2 = 0
  /\ out = <<1, 23, 2, 24, 3, 25, 4, 26, 5, 27, 6, 28, 7, 29, 8, 30, 9, 31, 10, 32,
             11, 33, 12, 34, 13, 35, 14, 36, 15, 37, 16, 38, 17, 39, 18, 40, 19,
             41, 20, 42, 21, 43, 22, 44>>

(* The shortest binary representation of v: BitLength(v) bits, the single *)
(* bit 0 for v = 0.                                                        *)
ShortestBinary(v) ==
  [i \in 1 .. BitLength(v) |->
     IF (v \div 2 ^ (BitLength(v) - i)) % 2 = 1 THEN "1" ELSE "0"]

(* C28: for every digit string d, encNumeric(d) is the concatenation, over *)
(* the consecutive groups of three digits (the last of one or two digits), *)
(* of the shortest binary representation of each group's decimal value     *)
(* with no left padding: leading zeros of a group are ignored and a group  *)
(* of value 0 yields the single bit 0.                                     *)
C28_ShortestBinaryGroups ==
  Returned("encNumeric") =>
    out = Concat([k \in 1 .. GroupCount(arg.data) |->
                    ShortestBinary(GroupValue(arg.data, k))])

(* encNumeric("100") = "1100100".                                          *)
C28_Witness ==
  /\ Returned("encNumeric")
  /\ arg.data = <<chZero + 1, chZero, chZero>>
  /\ out = <<"1", "1", "0", "0", "1", "0", "0">>

(* The bit string encoding() passes to terminator: the mode indicator,    *)
(* the count indicator and the output of encNumeric, encAlpha or encBytes. *)
EncodingBits ==
  IF qr.Mode = numeric
  THEN indNumeric \o indCount(qr.Length, qr.Mode, qr.Version) \o encNumeric(qr.Data)
  ELSE IF qr.Mode = alpha
  THEN indAlpha \o indCount(qr.Length, qr.Mode, qr.Version) \o encAlpha(qr.Data)
  ELSE indBytes \o indCount(qr.Length, qr.Mode, qr.Version) \o encBytes(qr.Data)

(* C29: for every non-empty input and whichever mode mode() selects for    *)
(* it, every character of the bit string that encoding() passes to         *)
(* terminator is 0 or 1; no sign character enters the bit stream.          *)
C29_OnlyBitsInStream ==
  (pc = "interleave" /\ Len(arg) > 0) =>
    LET bits == EncodingBits
    IN \A i \in 1 .. Len(bits) : bits[i] \in {"0", "1"}

(* The canvas with the colour of every data cell at which predicate i     *)
(* holds inverted.                                                         *)
MaskedBy(canvas, i) ==
  [r \in DOMAIN canvas |-> [c \in DOMAIN canvas[r] |->
     IF canvas[r][c].data /\ MaskPredicate(i, r, c)
     THEN Cell(1 - canvas[r][c].color, canvas[r][c].data)
     ELSE canvas[r][c]]]

(* C30: maskCanvas leaves its input canvas unchanged (it works on a        *)
(* cell-by-cell deep copy), so the candidates of dataMasking are derived   *)
(* from the same unmasked canvas: after maskCanvas with masks[i] and then  *)
(* with masks[j] on one canvas, the canvas is as before and each result is *)
(* that canvas under its own mask, whatever the other mask was.            *)
C30_InputCanvasUntouched ==
  Returned("maskCanvasTwice") =>
    /\ out.canvas = arg.canvas
    /\ out.first = MaskedBy(arg.canvas, arg.i)
    /\ out.second = MaskedBy(arg.canvas, arg.j)

(* Mask 0 and then mask 1 on a canvas of data cells: both invert the cell  *)
(* (0, 0), and it has its first colour in the canvas and the inverted one  *)
(* in both results.                                                        *)
C30_Witness ==
  /\ Returned("maskCanvasTwice")
  /\ arg.i = 0 /\ arg.j = 1
  /\ arg.canvas = sampleCanvas(0, 0)
  /\ arg.canvas[0][0] = Cell(0, TRUE)
  /\ out.canvas[0][0] = Cell(0, TRUE)
  /\ out.first[0][0] = Cell(1, TRUE)
  /\ out.second[0][0] = Cell(1, TRUE)
  /\ out.first # out.second

=============================================================================
